---- MODULE Spec2Model ----
(***************************************************************************)
(* Domain / SSL expiration monitor.                                        *)
(*                                                                         *)
(* The parts of the repository that are modelled:                          *)
(*   - DomainMonitor (domain_name_monitor/domain_monitor_app.py): the      *)
(*     batch check of the configured domains and the alert evaluation      *)
(*     (Spec), the email and Slack notifications (NotifySpec), and run()   *)
(*     with the authorizations and the saving of the results (RunSpec);    *)
(*   - the two toolkit checkers (domain_name_toolkit/tools/*.py)           *)
(*     (ToolSpec);                                                         *)
(*   - ConfigLoader (domain_name_monitor/config_loader.py): load_config    *)
(*     and save_config (ConfigSpec).                                       *)
(*                                                                         *)
(* Python values are represented as follows.                               *)
(*   dict            a TLA+ record; an absent key is an absent field       *)
(*   Optional[x]     None is <<>>, a present value x is <<x>>              *)
(*   str (cleaning)  a sequence of one-character strings                   *)
(*   datetime        [date, sec, tz]: day ordinal, second of the day and   *)
(*                   the UTC offset in seconds (Optional: <<>> is naive)   *)
(***************************************************************************)
EXTENDS Integers, Sequences, FiniteSets, TLC

VARIABLES
    config,     \* DomainMonitor.config (domains, monitoring)
    domains,    \* DomainMonitor.domains: the names of config.domains
    results,    \* DomainMonitor.results
    pc,         \* where the monitor is: "idle", or the tool a running
                \* check_all_domains is about to execute
    domain_result, \* check_domain's local: the first tool's output
    calls,      \* the tool executions of the current monitor operation
    returned,   \* the last monitor operation and the value it returned
    request,    \* the arguments of a checker call
    world,      \* what a checker call meets: WHOIS data, TLS peer, clock
    tool_call,  \* the last checker call: its external calls and its outcome
    phase,      \* the statement of run() the monitor is at; "none" when
                \* run() has not been entered
    alert_list, \* the alerts: run()'s local, the argument of send_*
    trace,      \* the external effects of run() so far, in order:
                \* authorizations, waits, tool executions, file writes
    files       \* the configuration files: name -> content

vars == <<config, domains, results, pc, domain_result, calls, returned,
          request, world, tool_call, phase, alert_list, trace, files>>

monitorVars == <<config, domains, results, pc, domain_result, calls, returned>>
toolVars == <<request, world, tool_call>>
shellVars == <<phase, alert_list, trace, files>>

----------------------------------------------------------------------------
(* Python helpers *)

None == <<>>
Some(x) == <<x>>

\* dict.get(key, default)
Get(d, key, default) == IF key \in DOMAIN d THEN d[key] ELSE default

\* dict.get(key): None when the key is absent
GetOpt(d, key) == IF key \in DOMAIN d THEN Some(d[key]) ELSE None

\* truth value of an Optional[int]: None and 0 are false
Truthy(opt) == opt # None /\ opt[1] # 0

----------------------------------------------------------------------------
(* Bounds of the model *)

\* the longest configured domain list
MaxDomains == 2

FirstName == "a.com"
DomainNames == {FirstName, "b.com"}

\* per-domain alert_threshold_days: absent/null, or an integer
Overrides == {None, Some(0), Some(60)}

\* monitoring.alert_threshold_days
GlobalThresholds == {30, 999}

\* days_until_expiry values reported by the tools
DayCounts == {15, 45}

\* expiration dates lie within this many days of the day of the check
MaxDayOffset == 32

\* seconds of the day used for the clock and the expiration instants
SecsOfDay == {0, 1, 43200, 86399}

\* the most files written in one behaviour
MaxSaves == 1

SeqsUpTo(S, n) == UNION {[1..k -> S] : k \in 0..n}

----------------------------------------------------------------------------
(* Configuration (config_loader.py dataclasses) *)

DomainConfig == [name : DomainNames, alert_threshold_days : Overrides]

MonitoringConfig == [alert_threshold_days : GlobalThresholds]

\* The domain names are interchangeable, so the first configured domain is
\* always FirstName; later entries may repeat it or differ from it.
DomainLists ==
    {d \in SeqsUpTo(DomainConfig, MaxDomains) : d = <<>> \/ d[1].name = FirstName}

DomainMonitorConfig == [domains : DomainLists, monitoring : MonitoringConfig]

----------------------------------------------------------------------------
(* The tool-execution service as the monitor sees it: executing a tool      *)
(* either raises or returns an output dict.  The outputs are those of the   *)
(* monitor's tests: full success records, a bare {"status": "success"},     *)
(* and error records.  The log of executions keeps, for each execution,     *)
(* the tool, the domain and whether it raised.                              *)

DomainOutputs ==
    {[status |-> "success", days_until_expiry |-> d,
      expiration_date |-> "2025-09-15T00:00:00+00:00",
      registrar |-> "Test Registrar"] : d \in DayCounts}
    \cup {[status |-> "success"]}
    \cup {[status |-> "error", message |-> "Domain not found."]}

SslOutputs ==
    {[status |-> "success", days_until_expiry |-> d,
      expiration_date |-> "2025-09-10T00:00:00+00:00"] : d \in DayCounts}
    \cup {[status |-> "error", message |-> "Connection timeout"]}

Raises == [raises |-> "Network error"]

IsRaise(outcome) == "raises" \in DOMAIN outcome

\* datetime.now().isoformat(): the monitor's clock is not modelled
CheckedAt == "checked_at"

NoReturn == [op |-> "none", value |-> <<>>]
NoResult == [status |-> "none"]

----------------------------------------------------------------------------
(* DomainMonitor.get_alerts *)

\* the lookup that lets a later entry of the same name win
domain_config_for_last(cfg, domain_name) ==
    LET matches == {k \in 1..Len(cfg.domains) : cfg.domains[k].name = domain_name}
    IN IF matches = {}
       THEN None
       ELSE Some(cfg.domains[CHOOSE k \in matches : \A m \in matches : k >= m])

\* next((d for d in self.config.domains if d.name == domain_name), None)
domain_config_for(cfg, domain_name) ==
    LET matches == {k \in 1..Len(cfg.domains) : cfg.domains[k].name = domain_name}
    IN IF matches = {}
       THEN None
       ELSE Some(cfg.domains[CHOOSE k \in matches : \A m \in matches : k <= m])

\* the per-domain override when it is truthy, else the global threshold
threshold_for(cfg, domain_name) ==
    LET domain_config == domain_config_for(cfg, domain_name)
    IN IF domain_config # None /\ Truthy(domain_config[1].alert_threshold_days)
       THEN domain_config[1].alert_threshold_days[1]
       ELSE cfg.monitoring.alert_threshold_days

\* the default of .get("days_until_expiry", 999)
MissingDaysDefault == 999

\* check.get("status") == "success" and
\* check.get("days_until_expiry", 999) <= threshold
needs_alert(check, threshold) ==
    /\ GetOpt(check, "status") = Some("success")
    /\ Get(check, "days_until_expiry", MissingDaysDefault) <= threshold

domain_alert(domain_name, domain_check, threshold) ==
    [domain |-> domain_name,
     type |-> "domain_registration",
     days_until_expiry |-> GetOpt(domain_check, "days_until_expiry"),
     expiration_date |-> GetOpt(domain_check, "expiration_date"),
     registrar |-> GetOpt(domain_check, "registrar"),
     threshold |-> threshold]

ssl_alert(domain_name, ssl_check, threshold) ==
    [domain |-> domain_name,
     type |-> "ssl_certificate",
     days_until_expiry |-> GetOpt(ssl_check, "days_until_expiry"),
     expiration_date |-> GetOpt(ssl_check, "expiration_date"),
     threshold |-> threshold]

\* alerts_step with the two appends in the other order
alerts_step_ssl_first(alerts, result, cfg) ==
    IF "error" \in DOMAIN result
    THEN alerts
    ELSE LET domain_name == result.domain
             domain_check == result.domain_check
             ssl_check == result.ssl_check
             threshold == threshold_for(cfg, domain_name)
             after_ssl ==
                 IF needs_alert(ssl_check, threshold)
                 THEN Append(alerts, ssl_alert(domain_name, ssl_check, threshold))
                 ELSE alerts
         IN IF needs_alert(domain_check, threshold)
            THEN Append(after_ssl, domain_alert(domain_name, domain_check, threshold))
            ELSE after_ssl

\* one iteration of the loop: the alert list after looking at result
alerts_step(alerts, result, cfg) ==
    IF "error" \in DOMAIN result
    THEN alerts
    ELSE LET domain_name == result.domain
             domain_check == result.domain_check
             ssl_check == result.ssl_check
             threshold == threshold_for(cfg, domain_name)
             after_domain ==
                 IF needs_alert(domain_check, threshold)
                 THEN Append(alerts, domain_alert(domain_name, domain_check, threshold))
                 ELSE alerts
         IN IF needs_alert(ssl_check, threshold)
            THEN Append(after_domain, ssl_alert(domain_name, ssl_check, threshold))
            ELSE after_domain

\* alerts_loop leaving the loop (break) at the first error result
RECURSIVE alerts_loop_break(_, _, _, _)
alerts_loop_break(alerts, res, i, cfg) ==
    IF i > Len(res) \/ "error" \in DOMAIN res[i]
    THEN alerts
    ELSE alerts_loop_break(alerts_step(alerts, res[i], cfg), res, i + 1, cfg)

RECURSIVE alerts_loop(_, _, _, _)
alerts_loop(alerts, res, i, cfg) ==
    IF i > Len(res)
    THEN alerts
    ELSE alerts_loop(alerts_step(alerts, res[i], cfg), res, i + 1, cfg)

get_alerts(res, cfg) == alerts_loop(<<>>, res, 1, cfg)

----------------------------------------------------------------------------
(* DomainMonitor.check_domain / check_all_domains.  One step per tool       *)
(* execution; nothing else runs while a batch is in progress.               *)

Call(tool_name, domain, outcome) ==
    [tool_name |-> tool_name, domain |-> domain, raised |-> IsRaise(outcome)]

\* the entry check_all_domains appends when check_domain raised
error_entry(domain, e) ==
    [domain |-> domain, error |-> e.raises, checked_at |-> CheckedAt]

\* the dict check_domain returns
check_entry(domain, domain_check, ssl_check) ==
    [domain |-> domain, domain_check |-> domain_check,
     ssl_check |-> ssl_check, checked_at |-> CheckedAt]

\* the for loop went round once more: next domain, or return self.results
AfterEntry(new_results) ==
    /\ results' = new_results
    /\ domain_result' = NoResult
    /\ IF Len(new_results) = Len(domains)
       THEN /\ pc' = "idle"
            /\ returned' = [op |-> "check_all_domains", value |-> new_results]
       ELSE /\ pc' = "check_domain_expiry"
            /\ returned' = NoReturn

\* check_all_domains that returns the results it already holds
CheckAllDomains_cached ==
    /\ pc = "idle"
    /\ calls' = <<>>
    /\ domain_result' = NoResult
    /\ IF domains = <<>> \/ results # <<>>
       THEN /\ pc' = "idle"
            /\ results' = results
            /\ returned' = [op |-> "check_all_domains", value |-> results]
       ELSE /\ pc' = "check_domain_expiry"
            /\ results' = <<>>
            /\ returned' = NoReturn
    /\ UNCHANGED <<config, domains, toolVars, shellVars>>

CheckAllDomains ==
    /\ pc = "idle"
    /\ calls' = <<>>
    /\ domain_result' = NoResult
    /\ results' = <<>>
    /\ IF domains = <<>>
       THEN /\ pc' = "idle"
            /\ returned' = [op |-> "check_all_domains", value |-> <<>>]
       ELSE /\ pc' = "check_domain_expiry"
            /\ returned' = NoReturn
    /\ UNCHANGED <<config, domains, toolVars, shellVars>>

\* ExecuteCheckDomainExpiry where a raising check ends the batch
ExecuteCheckDomainExpiry_break ==
    /\ pc = "check_domain_expiry"
    /\ LET domain == domains[Len(results) + 1]
       IN \E outcome \in DomainOutputs \cup {Raises} :
            /\ calls' = Append(calls,
                   Call("domain_name_toolkit.check_domain_expiry", domain, outcome))
            /\ IF IsRaise(outcome)
               THEN /\ results' = Append(results, error_entry(domain, outcome))
                    /\ domain_result' = NoResult
                    /\ pc' = "idle"
                    /\ returned' = [op |-> "check_all_domains", value |-> results']
               ELSE /\ domain_result' = outcome
                    /\ pc' = "check_ssl_expiry"
                    /\ UNCHANGED <<results, returned>>
    /\ UNCHANGED <<config, domains, toolVars, shellVars>>

\* the executions that raised at the end of the log
RECURSIVE TrailingRaises(_)
TrailingRaises(log) ==
    IF log = <<>> \/ ~log[Len(log)].raised
    THEN 0
    ELSE 1 + TrailingRaises(SubSeq(log, 1, Len(log) - 1))

\* ExecuteCheckDomainExpiry where a raising execution is tried again, up to
\* advanced.max_retry_attempts times
ExecuteCheckDomainExpiry_retrying ==
    /\ pc = "check_domain_expiry"
    /\ LET domain == domains[Len(results) + 1]
       IN \E outcome \in DomainOutputs \cup {Raises} :
            /\ calls' = Append(calls,
                   Call("domain_name_toolkit.check_domain_expiry", domain, outcome))
            /\ IF IsRaise(outcome)
               THEN IF TrailingRaises(calls') <= config.advanced.max_retry_attempts
                    THEN UNCHANGED <<results, domain_result, pc, returned>>
                    ELSE AfterEntry(Append(results, error_entry(domain, outcome)))
               ELSE /\ domain_result' = outcome
                    /\ pc' = "check_ssl_expiry"
                    /\ UNCHANGED <<results, returned>>
    /\ UNCHANGED <<config, domains, toolVars, shellVars>>

ExecuteCheckDomainExpiry ==
    /\ pc = "check_domain_expiry"
    /\ LET domain == domains[Len(results) + 1]
       IN \E outcome \in DomainOutputs \cup {Raises} :
            /\ calls' = Append(calls,
                   Call("domain_name_toolkit.check_domain_expiry", domain, outcome))
            /\ IF IsRaise(outcome)
               THEN AfterEntry(Append(results, error_entry(domain, outcome)))
               ELSE /\ domain_result' = outcome
                    /\ pc' = "check_ssl_expiry"
                    /\ UNCHANGED <<results, returned>>
    /\ UNCHANGED <<config, domains, toolVars, shellVars>>

ExecuteCheckSslExpiry ==
    /\ pc = "check_ssl_expiry"
    /\ LET domain == domains[Len(results) + 1]
       IN \E outcome \in SslOutputs \cup {Raises} :
            /\ calls' = Append(calls,
                   Call("domain_name_toolkit.check_ssl_expiry", domain, outcome))
            /\ IF IsRaise(outcome)
               THEN AfterEntry(Append(results, error_entry(domain, outcome)))
               ELSE AfterEntry(Append(results,
                        check_entry(domain, domain_result, outcome)))
    /\ UNCHANGED <<config, domains, toolVars, shellVars>>

\* get_alerts that drops the results it has reported on
GetAlerts_consuming ==
    /\ pc = "idle"
    /\ returned' = [op |-> "get_alerts", value |-> get_alerts(results, config)]
    /\ calls' = <<>>
    /\ results' = <<>>
    /\ UNCHANGED <<config, domains, pc, domain_result, toolVars, shellVars>>

GetAlerts ==
    /\ pc = "idle"
    /\ returned' = [op |-> "get_alerts", value |-> get_alerts(results, config)]
    /\ calls' = <<>>
    /\ UNCHANGED <<config, domains, results, pc, domain_result, toolVars, shellVars>>

----------------------------------------------------------------------------
(* Strings of the domain cleaning, as sequences of characters *)

HTTP == <<"h", "t", "t", "p", ":", "/", "/">>
HTTPS == <<"h", "t", "t", "p", "s", ":", "/", "/">>
WWW == <<"w", "w", "w", ".">>
SLASH == "/"

\* str.replace(old, ""): every non-overlapping occurrence, left to right
RECURSIVE Replace(_, _)
Replace(s, old) ==
    IF Len(s) < Len(old)
    THEN s
    ELSE IF SubSeq(s, 1, Len(old)) = old
    THEN Replace(SubSeq(s, Len(old) + 1, Len(s)), old)
    ELSE <<Head(s)>> \o Replace(Tail(s), old)

\* str.split("/")[0]: what precedes the first "/"
RECURSIVE SplitFirst(_)
SplitFirst(s) ==
    IF s = <<>> \/ Head(s) = SLASH
    THEN <<>>
    ELSE <<Head(s)>> \o SplitFirst(Tail(s))

\* domain.replace("http://", "").replace("https://", "")
\*       .replace("www.", "").split("/")[0]
clean_domain(domain) ==
    SplitFirst(Replace(Replace(Replace(domain, HTTP), HTTPS), WWW))

----------------------------------------------------------------------------
(* datetime and timedelta *)

SecondsPerDay == 86400

UTC == Some(0)

\* timedelta whose day count is rounded toward zero
timedelta_truncating(days, seconds) ==
    LET total == days * SecondsPerDay + seconds
    IN IF total < 0
       THEN [days |-> -((-total) \div SecondsPerDay),
             seconds |-> -((-total) % SecondsPerDay)]
       ELSE [days |-> total \div SecondsPerDay, seconds |-> total % SecondsPerDay]

\* timedelta(days, seconds) normalizes so that 0 <= seconds < 86400
timedelta(days, seconds) ==
    [days |-> days + (seconds \div SecondsPerDay),
     seconds |-> seconds % SecondsPerDay]

\* aware datetime - aware datetime: the difference of the local readings,
\* corrected by the two UTC offsets
datetime_sub(a, b) ==
    timedelta(a.date - b.date, (a.sec - b.sec) + (b.tz[1] - a.tz[1]))

\* datetime.replace(tzinfo=timezone.utc)
replace_tzinfo_utc(dt) == [date |-> dt.date, sec |-> dt.sec, tz |-> UTC]

\* datetime.isoformat(): local date, local time and offset
isoformat(dt) == [iso_date |-> dt.date, iso_time |-> dt.sec, iso_offset |-> dt.tz]

\* 0 <= days_until_expiry <= 30
ExpiresSoonDays == 30

\* is_expired that counts the day of the expiration as expired
is_expired_on_the_day(days_until_expiry) == days_until_expiry <= 0

is_expired(days_until_expiry) == days_until_expiry < 0

\* expires_soon with the upper bound excluded
expires_soon_exclusive(days_until_expiry) ==
    0 <= days_until_expiry /\ days_until_expiry < ExpiresSoonDays

expires_soon(days_until_expiry) ==
    0 <= days_until_expiry /\ days_until_expiry <= ExpiresSoonDays

----------------------------------------------------------------------------
(* Exceptions: [exc |-> class, cause |-> str(e)] *)

Exc(class, cause) == [exc |-> class, cause |-> cause]

\* the classes that derive from Exception (all that the external calls and
\* the parsing raise)
ExceptionClasses ==
    {"Exception", "IndexError", "AttributeError", "KeyError", "ValueError",
     "ConnectionRefusedError", "socket.gaierror", "socket.timeout", "ssl.SSLError"}

Returns(value) == [returns |-> value]
Raised(e) == [raised |-> e]
IsRaised(outcome) == "raised" \in DOMAIN outcome

error_result(domain, message) ==
    [domain |-> domain, status |-> "error", message |-> message]

----------------------------------------------------------------------------
(* check_domain_expiry *)

\* expiration_date[0] when the field is a list
first_of_list(expiration_date) ==
    IF expiration_date.kind = "list"
    THEN IF expiration_date.items = <<>>
         THEN Raised(Exc("IndexError", "list index out of range"))
         ELSE Returns([kind |-> "datetime", value |-> expiration_date.items[1]])
    ELSE Returns(expiration_date)

\* getattr(domain_info, "registrar", "Unknown")
registrar_of(domain_info) ==
    IF "registrar" \in DOMAIN domain_info
    THEN domain_info.registrar
    ELSE Some("Unknown")

\* the success dict, from an expiration datetime and the clock
domain_success(clean, expiration_date, now, domain_info) ==
    LET aware == IF expiration_date.tz = None
                 THEN replace_tzinfo_utc(expiration_date)
                 ELSE expiration_date
        days_until_expiry == datetime_sub(aware, now).days
    IN [domain |-> clean,
        status |-> "success",
        expiration_date |-> isoformat(aware),
        days_until_expiry |-> days_until_expiry,
        is_expired |-> is_expired(days_until_expiry),
        expires_soon |-> expires_soon(days_until_expiry),
        registrar |-> registrar_of(domain_info)]

\* the body of the try block: a returned dict or a raised exception
domain_try(domain, w) ==
    LET clean == clean_domain(domain)
        domain_info == w.whois
    IN IF domain_info.kind = "raises"
       THEN Raised(Exc("Exception", domain_info.cause))
       ELSE IF domain_info.kind = "none"
       THEN Returns(error_result(clean, <<"Domain not found.">>))
       ELSE LET first == first_of_list(domain_info.expiration_date)
            IN IF IsRaised(first)
               THEN first
               ELSE IF first.returns.kind = "none"
               THEN Returns(error_result(clean,
                        <<"Could not determine expiration date">>))
               ELSE IF first.returns.kind # "datetime"
               THEN Raised(Exc("AttributeError",
                        "'str' object has no attribute 'tzinfo'"))
               ELSE Returns(domain_success(clean, first.returns.value,
                                           w.now, domain_info))

\* a handler that only catches the exception of the WHOIS query
domain_except_narrow(domain, e) ==
    IF e.exc = "Exception"
    THEN Returns(error_result(domain, <<"Error checking domain: ", e.cause>>))
    ELSE Raised(e)

\* except Exception as e
domain_except(domain, e) ==
    IF e.exc \in ExceptionClasses
    THEN Returns(error_result(domain, <<"Error checking domain: ", e.cause>>))
    ELSE Raised(e)

check_domain_expiry(domain, w) ==
    LET body == domain_try(domain, w)
    IN IF IsRaised(body) THEN domain_except(domain, body.raised) ELSE body

----------------------------------------------------------------------------
(* check_ssl_expiry *)

HttpsPort == 443
ConnectTimeout == 10

\* datetime.strptime(notAfter, '%b %d %H:%M:%S %Y %Z'): a naive datetime,
\* the zone name is checked and dropped; the calendar is not modelled, the
\* text carries the day ordinal and the second of the day
strptime(notAfter) ==
    IF notAfter.kind = "date" /\ notAfter.zone \in {"GMT", "UTC"}
    THEN Returns([date |-> notAfter.date, sec |-> notAfter.sec, tz |-> None])
    ELSE Raised(Exc("ValueError", "time data does not match format"))

ssl_success(clean, expiry_date, now, cert) ==
    LET aware == replace_tzinfo_utc(expiry_date)
        days_until_expiry == datetime_sub(aware, now).days
    IN [domain |-> clean,
        status |-> "success",
        expiration_date |-> isoformat(aware),
        days_until_expiry |-> days_until_expiry,
        is_expired |-> is_expired(days_until_expiry),
        expires_soon |-> expires_soon(days_until_expiry),
        subject |-> Get(cert, "subject", <<>>),
        issuer |-> Get(cert, "issuer", <<>>)]

\* the body of the try block
ssl_try(domain, port, w) ==
    LET clean == clean_domain(domain)
        peer == w.tls
    IN IF peer.kind = "raises"
       THEN Raised(peer.error)
       ELSE IF "notAfter" \notin DOMAIN peer.cert
       THEN Raised(Exc("KeyError", "'notAfter'"))
       ELSE LET parsed == strptime(peer.cert.notAfter)
            IN IF IsRaised(parsed)
               THEN parsed
               ELSE Returns(ssl_success(clean, parsed.returns, w.now, peer.cert))

\* the clauses with the catch-all first
ssl_except_generic_first(domain, e) ==
    IF e.exc \in ExceptionClasses
    THEN Returns(error_result(domain,
             <<"Error checking SSL certificate: ", e.cause>>))
    ELSE IF e.exc = "socket.gaierror"
    THEN Returns(error_result(domain, <<"Domain not found or not reachable">>))
    ELSE Raised(e)

\* the except clauses, in their order
ssl_except(domain, e) ==
    IF e.exc = "socket.gaierror"
    THEN Returns(error_result(domain, <<"Domain not found or not reachable">>))
    ELSE IF e.exc = "socket.timeout"
    THEN Returns(error_result(domain, <<"Connection timeout">>))
    ELSE IF e.exc = "ssl.SSLError"
    THEN Returns(error_result(domain, <<"SSL error: ", e.cause>>))
    ELSE IF e.exc \in ExceptionClasses
    THEN Returns(error_result(domain,
             <<"Error checking SSL certificate: ", e.cause>>))
    ELSE Raised(e)

check_ssl_expiry(domain, port, w) ==
    LET body == ssl_try(domain, port, w)
    IN IF IsRaised(body) THEN ssl_except(domain, body.raised) ELSE body

----------------------------------------------------------------------------
(* The checker calls as actions.  tool_call records the external calls the  *)
(* checker made (the WHOIS query, the TCP connection, the TLS server name)  *)
(* and how the call ended.                                                  *)

CheckDomainExpiry ==
    /\ request # None
    /\ tool_call' =
         [tool |-> "check_domain_expiry",
          whois_query |-> Some(clean_domain(request[1].domain)),
          connect |-> None,
          server_hostname |-> None,
          outcome |-> check_domain_expiry(request[1].domain, world[1])]
    /\ UNCHANGED <<request, world, monitorVars, shellVars>>

\* a checker that connects to the port it is given
CheckSslExpiry_to_port ==
    /\ request # None
    /\ tool_call' =
         [tool |-> "check_ssl_expiry",
          whois_query |-> None,
          connect |-> Some([host |-> clean_domain(request[1].domain),
                            port |-> request[1].port,
                            timeout |-> ConnectTimeout]),
          server_hostname |->
              IF world[1].tls.kind = "raises" /\ world[1].tls.at = "connect"
              THEN None
              ELSE Some(clean_domain(request[1].domain)),
          outcome |-> check_ssl_expiry(request[1].domain, request[1].port,
                                       world[1])]
    /\ UNCHANGED <<request, world, monitorVars, shellVars>>

CheckSslExpiry ==
    /\ request # None
    /\ tool_call' =
         [tool |-> "check_ssl_expiry",
          whois_query |-> None,
          connect |-> Some([host |-> clean_domain(request[1].domain),
                            port |-> HttpsPort,
                            timeout |-> ConnectTimeout]),
          server_hostname |->
              IF world[1].tls.kind = "raises" /\ world[1].tls.at = "connect"
              THEN None
              ELSE Some(clean_domain(request[1].domain)),
          outcome |-> check_ssl_expiry(request[1].domain, request[1].port,
                                       world[1])]
    /\ UNCHANGED <<request, world, monitorVars, shellVars>>

----------------------------------------------------------------------------
(* Inputs of the checker calls *)

EXAMPLE_COM == <<"e", "x", "a", "m", "p", "l", "e", ".", "c", "o", "m">>
A_IO == <<"a", ".", "i", "o">>
MYWWW_IO == <<"m", "y", "w", "w", "w", ".", "i", "o">>

Hosts == {EXAMPLE_COM, A_IO, MYWWW_IO}
Schemes == {<<>>, HTTP, HTTPS}
WwwPrefixes == {<<>>, WWW}
Paths == {<<>>, <<"/">>, <<"/", "p", "a", "t", "h">>}

\* scheme, www. prefix, host, path
Variation(scheme, www, host, path) == scheme \o www \o host \o path

DomainInputs ==
    {Variation(sc, w, h, pa) : sc \in Schemes, w \in WwwPrefixes,
                               h \in Hosts, pa \in Paths}

Ports == {HttpsPort, 8443}

Requests == [domain : DomainInputs, port : Ports]

\* the clock: datetime.now(timezone.utc) on day 0
Clocks == [date : {0}, sec : SecsOfDay, tz : {UTC}]

\* tzinfo of a WHOIS timestamp: naive, UTC, +01:00, -05:00
Zones == {None, UTC, Some(3600), Some(-18000)}

ExpirationDates ==
    [date : (-MaxDayOffset)..MaxDayOffset, sec : SecsOfDay, tz : Zones]

OneDayLater(dt) == [date |-> dt.date + 1, sec |-> dt.sec, tz |-> dt.tz]

\* the registrar attribute of a WHOIS record: a name or None; the attribute
\* may also be missing
Registrars == {Some("Test Registrar"), None}

WhoisRecords(expiration_dates) ==
    [kind : {"record"}, expiration_date : expiration_dates, registrar : Registrars]
    \cup [kind : {"record"}, expiration_date : expiration_dates]

WhoisRaises == [kind |-> "raises", cause |-> "WHOIS lookup failed"]
WhoisNone == [kind |-> "none"]

\* one timestamp, or a list whose first element it is
DatedExpirations ==
    {[kind |-> "datetime", value |-> e] : e \in ExpirationDates}
    \cup {[kind |-> "list", items |-> <<e, OneDayLater(e)>>] : e \in ExpirationDates}

FixedExpiration == [date |-> 15, sec |-> 0, tz |-> None]

OtherExpirations ==
    {[kind |-> "none"],
     [kind |-> "str", text |-> "2025-09-15"],
     [kind |-> "list", items |-> <<>>],
     [kind |-> "list", items |-> <<FixedExpiration>>],
     [kind |-> "datetime", value |-> FixedExpiration]}

TlsRaises ==
    {[kind |-> "raises", at |-> "connect",
      error |-> Exc("socket.gaierror", "Name or service not known")],
     [kind |-> "raises", at |-> "connect",
      error |-> Exc("socket.timeout", "timed out")],
     [kind |-> "raises", at |-> "connect",
      error |-> Exc("ConnectionRefusedError", "Connection refused")],
     [kind |-> "raises", at |-> "handshake",
      error |-> Exc("ssl.SSLError", "CERTIFICATE_VERIFY_FAILED")]}

Subject == <<<<"commonName", "example.com">>>>
Issuer == <<<<"organizationName", "Test CA">>>>

Cert(notAfter) ==
    [kind |-> "cert",
     cert |-> [notAfter |-> notAfter, subject |-> Subject, issuer |-> Issuer]]

NotAfters == [kind : {"date"}, date : (-MaxDayOffset)..MaxDayOffset,
              sec : SecsOfDay, zone : {"GMT"}]

OtherPeers ==
    TlsRaises
    \cup {[kind |-> "cert", cert |-> [subject |-> Subject]],
          Cert([kind |-> "text", text |-> "not a date"]),
          Cert([kind |-> "date", date |-> 15, sec |-> 0, zone |-> "EST"]),
          Cert([kind |-> "date", date |-> 15, sec |-> 0, zone |-> "GMT"])}

DefaultPeer == CHOOSE p \in TlsRaises : p.error.exc = "socket.gaierror"

\* every expiration instant and clock reading, for the plain domain name
DatedWorlds ==
    [whois : [kind : {"record"}, expiration_date : DatedExpirations,
              registrar : {Some("Test Registrar")}],
     tls : {DefaultPeer}, now : Clocks]
    \cup [whois : {WhoisRaises}, tls : {Cert(n) : n \in NotAfters}, now : Clocks]

\* every other outcome of the external calls, at noon
OtherWorlds ==
    [whois : {WhoisRaises, WhoisNone} \cup WhoisRecords(OtherExpirations),
     tls : {DefaultPeer}, now : {[date |-> 0, sec |-> 43200, tz |-> UTC]}]
    \cup [whois : {WhoisRaises}, tls : OtherPeers,
          now : {[date |-> 0, sec |-> 43200, tz |-> UTC]}]

----------------------------------------------------------------------------
NoToolCall == [tool |-> "none"]

\* no configuration file exists
NoFiles == <<>>

\* DomainMonitor.__init__
Init ==
    /\ config \in DomainMonitorConfig
    /\ domains = [k \in 1..Len(config.domains) |-> config.domains[k].name]
    /\ results = <<>>
    /\ pc = "idle"
    /\ domain_result = NoResult
    /\ calls = <<>>
    /\ returned = NoReturn
    /\ request = None
    /\ world = None
    /\ tool_call = NoToolCall
    /\ phase = "none"
    /\ alert_list = <<>>
    /\ trace = <<>>
    /\ files = NoFiles

Next ==
    \/ CheckAllDomains
    \/ ExecuteCheckDomainExpiry
    \/ ExecuteCheckSslExpiry
    \/ GetAlerts

Spec == Init /\ [][Next]_vars

\* The checkers on their own: a request and a world are given, the monitor
\* is idle; its configured threshold varies to show that the checkers do not
\* depend on it.
ToolInit ==
    /\ config \in [domains : {<<>>}, monitoring : MonitoringConfig]
    /\ domains = <<>>
    /\ results = <<>>
    /\ pc = "idle"
    /\ domain_result = NoResult
    /\ calls = <<>>
    /\ returned = NoReturn
    /\ \/ /\ request = Some([domain |-> EXAMPLE_COM, port |-> HttpsPort])
          /\ \E w \in DatedWorlds : world = Some(w)
       \/ /\ \E r \in Requests : request = Some(r)
          /\ \E w \in OtherWorlds : world = Some(w)
    /\ tool_call = NoToolCall
    /\ phase = "none"
    /\ alert_list = <<>>
    /\ trace = <<>>
    /\ files = NoFiles

ToolNext ==
    \/ CheckDomainExpiry
    \/ CheckSslExpiry

ToolSpec == ToolInit /\ [][ToolNext]_vars

\* The checkers on any string made of a few pieces: letters, the dot, the
\* slash and the three texts the cleaning removes.
MaxParts == 5

Pieces == {<<"w">>, <<".">>, <<"a">>, <<SLASH>>, WWW, HTTP, HTTPS}

RECURSIVE Concat(_)
Concat(ss) == IF ss = <<>> THEN <<>> ELSE Head(ss) \o Concat(Tail(ss))

PiecedInputs == {Concat(parts) : parts \in SeqsUpTo(Pieces, MaxParts)}

\* no WHOIS record, no route to the host, at noon
PlainWorld ==
    [whois |-> WhoisNone, tls |-> DefaultPeer,
     now |-> [date |-> 0, sec |-> 43200, tz |-> UTC]]

CleanInit ==
    /\ config = [domains |-> <<>>, monitoring |-> [alert_threshold_days |-> 30]]
    /\ domains = <<>>
    /\ results = <<>>
    /\ pc = "idle"
    /\ domain_result = NoResult
    /\ calls = <<>>
    /\ returned = NoReturn
    /\ \E s \in PiecedInputs : request = Some([domain |-> s, port |-> HttpsPort])
    /\ world = Some(PlainWorld)
    /\ tool_call = NoToolCall
    /\ phase = "none"
    /\ alert_list = <<>>
    /\ trace = <<>>
    /\ files = NoFiles

CleanSpec == CleanInit /\ [][ToolNext]_vars

----------------------------------------------------------------------------
(* The orchestration shell of DomainMonitor: notifications.  Texts are      *)
(* sequences of lines (the lines joined by "\n"), a line is a string; the   *)
(* emoji of the source are written as their short names.                    *)

\* the most email recipients configured
MaxRecipients == 2

UserId == "kig@kig.re"
UserIds == {UserId, "ops@example.com"}

Recipient(k) ==
    [email |-> "r" \o ToString(k) \o "@example.com", name |-> "Admin"]

RecipientLists == {[k \in 1..n |-> Recipient(k)] : n \in 0..MaxRecipients}

\* templates are sequences of parts, "{count}" being the placeholder
SubjectTemplate ==
    <<":rotating_light: Domain Expiration Alert - ", "{count}",
      " domain(s) expiring soon">>
MessageTemplate ==
    <<":rotating_light: *Domain Alert* - ", "{count}",
      " domain(s) expiring soon">>

DefaultEmojis ==
    [critical |-> ":red_circle:", warning |-> ":yellow_circle:",
     info |-> ":information:"]

\* urgency_emojis as configured: the default, or one with custom markers
\* for two of the labels only
UrgencyEmojis == {DefaultEmojis, [critical |-> "!!!", info |-> "(i)"]}

EmailConfig ==
    [enabled : BOOLEAN, recipients : RecipientLists,
     subject_template : {SubjectTemplate}]

SlackConfig ==
    [enabled : BOOLEAN, channel : {"#alerts"},
     message_template : {MessageTemplate}, urgency_emojis : UrgencyEmojis]

NotificationConfig == [email : EmailConfig, slack : SlackConfig]

\* str(x) of an Optional[int] and of an Optional[str] inside an f-string
StrInt(opt) == IF opt = None THEN "None" ELSE ToString(opt[1])
StrText(opt) == IF opt = None THEN "None" ELSE opt[1]

RECURSIVE Join(_)
Join(parts) == IF parts = <<>> THEN "" ELSE Head(parts) \o Join(Tail(parts))

\* template.format(count=count)
Format(template, count) ==
    Join([k \in 1..Len(template) |->
             IF template[k] = "{count}" THEN ToString(count) ELSE template[k]])

\* alert["type"].replace("_", " ").title()
TypeTitle(type) ==
    IF type = "domain_registration" THEN "Domain Registration"
    ELSE "Ssl Certificate"

\* the body lines of one alert
email_alert_lines(alert) ==
    <<":red_circle: " \o alert.domain,
      "   Type: " \o TypeTitle(alert.type),
      "   Days until expiry: " \o StrInt(alert.days_until_expiry),
      "   Expiration date: " \o StrText(alert.expiration_date)>>
    \o (IF alert.type = "domain_registration"
        THEN <<"   Registrar: " \o StrText(Get(alert, "registrar", Some("Unknown")))>>
        ELSE <<>>)
    \o <<"">>

RECURSIVE email_body_loop(_, _, _)
email_body_loop(body_lines, alerts, i) ==
    IF i > Len(alerts)
    THEN body_lines
    ELSE email_body_loop(body_lines \o email_alert_lines(alerts[i]), alerts, i + 1)

email_body(alerts) ==
    email_body_loop(
        <<"Domain Expiration Alert",
          "==================================================",
          "",
          "The following domains are expiring within their alert thresholds:",
          "">>, alerts, 1)
    \o <<"Please take action to renew these domains/certificates.",
         "",
         "This is an automated alert from Domain Monitor.">>

\* one execution of Gmail.SendEmail
EmailCall(cfg, recipient, subject, body, outcome) ==
    [tool_name |-> "Gmail.SendEmail",
     input |-> [to |-> recipient.email, subject |-> subject, body |-> body],
     user_id |-> cfg.monitoring.user_id,
     raised |-> IsRaise(outcome)]

\* the outcomes of the executions send_* makes
SendOutcomes == {[output |-> "sent"], Raises}

\* send_email_alert where a raising send ends the loop
send_email_alert_abort(cfg, alerts, outcomes) ==
    IF alerts = <<>> \/ ~cfg.notifications.email.enabled
    THEN <<>>
    ELSE LET email == cfg.notifications.email
             subject == Format(email.subject_template, Len(alerts))
             body == email_body(alerts)
             raising == {k \in 1..Len(email.recipients) : IsRaise(outcomes[k])}
             last == IF raising = {} THEN Len(email.recipients)
                     ELSE CHOOSE k \in raising : \A m \in raising : k <= m
         IN [k \in 1..last |->
                EmailCall(cfg, email.recipients[k], subject, body, outcomes[k])]

\* send_email_alert: the executions it makes, given the outcome of the
\* send to each recipient
send_email_alert(cfg, alerts, outcomes) ==
    IF alerts = <<>> \/ ~cfg.notifications.email.enabled
    THEN <<>>
    ELSE LET email == cfg.notifications.email
             subject == Format(email.subject_template, Len(alerts))
             body == email_body(alerts)
         IN [k \in 1..Len(email.recipients) |->
                EmailCall(cfg, email.recipients[k], subject, body, outcomes[k])]

\* slack_emoji with the critical marker below 7 days only
slack_emoji_exclusive(urgency_emojis, days) ==
    IF days < 7 THEN Get(urgency_emojis, "critical", ":red_circle:")
    ELSE IF days <= 30 THEN Get(urgency_emojis, "warning", ":yellow_circle:")
    ELSE Get(urgency_emojis, "info", ":information:")

\* the marker of a day count
slack_emoji(urgency_emojis, days) ==
    IF days <= 7 THEN Get(urgency_emojis, "critical", ":red_circle:")
    ELSE IF days <= 30 THEN Get(urgency_emojis, "warning", ":yellow_circle:")
    ELSE Get(urgency_emojis, "info", ":information:")

slack_line(slack, alert) ==
    slack_emoji(slack.urgency_emojis, alert.days_until_expiry[1])
    \o " *" \o alert.domain \o "* (" \o TypeTitle(alert.type) \o ") - "
    \o StrInt(alert.days_until_expiry) \o " days left"

\* the message lines, or the TypeError of comparing a None day count
slack_message(slack, alerts) ==
    IF \E i \in 1..Len(alerts) : alerts[i].days_until_expiry = None
    THEN Raised(Exc("TypeError",
             "'<=' not supported between instances of 'NoneType' and 'int'"))
    ELSE Returns(<<Format(slack.message_template, Len(alerts)) \o ":">>
                 \o [i \in 1..Len(alerts) |-> slack_line(slack, alerts[i])])

SlackCall(cfg, text, outcome) ==
    [tool_name |-> "Slack.SendMessage",
     input |-> [channel |-> cfg.notifications.slack.channel, text |-> text],
     user_id |-> cfg.monitoring.user_id,
     raised |-> IsRaise(outcome)]

\* send_slack_alert: the executions it makes and the exception it lets
\* through, given the outcome of the send
send_slack_alert(cfg, alerts, outcome) ==
    IF alerts = <<>> \/ ~cfg.notifications.slack.enabled
    THEN [calls |-> <<>>, raised |-> None]
    ELSE LET message == slack_message(cfg.notifications.slack, alerts)
         IN IF IsRaised(message)
            THEN [calls |-> <<>>, raised |-> Some(message.raised)]
            ELSE [calls |-> <<SlackCall(cfg, message.returns, outcome)>>,
                  raised |-> None]

\* The notification methods on their own, called with the alerts of a
\* finished batch.
SendEmailAlert ==
    /\ pc = "idle"
    /\ phase = "none"
    /\ \E outcomes \in [1..Len(config.notifications.email.recipients)
                           -> SendOutcomes] :
          calls' = send_email_alert(config, alert_list, outcomes)
    /\ returned' = [op |-> "send_email_alert", value |-> None]
    /\ UNCHANGED <<config, domains, results, pc, domain_result, toolVars,
                   shellVars>>

SendSlackAlert ==
    /\ pc = "idle"
    /\ phase = "none"
    /\ \E outcome \in SendOutcomes :
          LET sent == send_slack_alert(config, alert_list, outcome)
          IN /\ calls' = sent.calls
             /\ returned' = IF sent.raised = None
                            THEN [op |-> "send_slack_alert", value |-> None]
                            ELSE [op |-> "send_slack_alert",
                                  raised |-> sent.raised[1]]
    /\ UNCHANGED <<config, domains, results, pc, domain_result, toolVars,
                   shellVars>>

\* the longest result list the notifications are called after
MaxNotifyResults == 1

\* day counts on both sides of the urgency limits 7 and 30
NotifyDays == {-3, 7, 8, 30, 31}

NotifyDomainChecks ==
    {[status |-> "success", days_until_expiry |-> d,
      expiration_date |-> "2025-09-15T00:00:00+00:00",
      registrar |-> "Test Registrar"] : d \in NotifyDays}
    \cup {[status |-> "success"]}
    \cup {[status |-> "error", message |-> "Domain not found."]}

NotifySslChecks ==
    {[status |-> "success", days_until_expiry |-> d,
      expiration_date |-> "2025-09-10T00:00:00+00:00"] : d \in {7, 31}}
    \cup {[status |-> "error", message |-> "Connection timeout"]}

NotifyName(k) == IF k = 1 THEN FirstName ELSE "b" \o ToString(k) \o ".com"

NotifyResults ==
    UNION {{[k \in 1..n |-> check_entry(NotifyName(k), dc[k], sc[k])] :
               dc \in [1..n -> NotifyDomainChecks],
               sc \in [1..n -> NotifySslChecks]} : n \in 0..MaxNotifyResults}

ShellMonitoring ==
    [alert_threshold_days : GlobalThresholds, save_results : BOOLEAN,
     results_filename : {"domain_check_results.json"}, user_id : UserIds]

\* the configuration of a monitor of n domains without overrides
ShellConfig(n, monitoring, notifications) ==
    [domains |-> [k \in 1..n |->
                     [name |-> NotifyName(k), alert_threshold_days |-> None]],
     monitoring |-> monitoring,
     notifications |-> notifications]

\* after check_all_domains and get_alerts: the caller holds the alerts
NotifyInit ==
    /\ \E res \in NotifyResults, notifications \in NotificationConfig,
          monitoring \in ShellMonitoring :
          /\ monitoring.save_results
          /\ config = ShellConfig(Len(res), monitoring, notifications)
          /\ results = res
    /\ domains = [k \in 1..Len(config.domains) |-> config.domains[k].name]
    /\ alert_list = get_alerts(results, config)
    /\ returned = [op |-> "get_alerts", value |-> alert_list]
    /\ pc = "idle"
    /\ domain_result = NoResult
    /\ calls = <<>>
    /\ request = None
    /\ world = None
    /\ tool_call = NoToolCall
    /\ phase = "none"
    /\ trace = <<>>
    /\ files = NoFiles

NotifyNext ==
    \/ SendEmailAlert
    \/ SendSlackAlert

NotifySpec == NotifyInit /\ [][NotifyNext]_vars

----------------------------------------------------------------------------
(* The orchestration shell of DomainMonitor: authorization, save_results,   *)
(* run().  Effects are authorizations, waits, tool executions and file      *)
(* writes; trace holds those of the statements of run() that have           *)
(* completed.                                                               *)

\* auth_response.status values of the service
AuthStatuses == {"completed", "pending"}

\* a list that asks for Gmail only when email is enabled
tools_to_authorize_if_enabled(cfg) ==
    <<"domain_name_toolkit.check_domain_expiry",
      "domain_name_toolkit.check_ssl_expiry">>
    \o (IF cfg.notifications.email.enabled
        THEN <<"Gmail.SendEmail">> ELSE <<>>)
    \o (IF cfg.notifications.slack.enabled
        THEN <<"Slack.SendMessage">> ELSE <<>>)

tools_to_authorize(cfg) ==
    <<"domain_name_toolkit.check_domain_expiry",
      "domain_name_toolkit.check_ssl_expiry",
      "Gmail.SendEmail">>
    \o (IF cfg.notifications.slack.enabled
        THEN <<"Slack.SendMessage">> ELSE <<>>)

\* client.tools.authorize(tool_name=..., user_id=...) and its response
Authorize(tool_name, user_id, status) ==
    [authorize |-> tool_name, user_id |-> user_id, status |-> status]

\* client.auth.wait_for_completion(auth_response)
WaitForCompletion(tool_name) == [wait_for_completion |-> tool_name]

\* the loop over the tools from the i-th on, given the status of each
\* response
RECURSIVE authorize_loop(_, _, _, _)
authorize_loop(cfg, tools, statuses, i) ==
    IF i > Len(tools)
    THEN <<>>
    ELSE <<Authorize(tools[i], cfg.monitoring.user_id, statuses[i])>>
         \o (IF statuses[i] # "completed"
             THEN <<WaitForCompletion(tools[i])>> ELSE <<>>)
         \o authorize_loop(cfg, tools, statuses, i + 1)

authorize_tools(cfg, statuses) ==
    authorize_loop(cfg, tools_to_authorize(cfg), statuses, 1)

\* the summary counting the results instead of the domains
results_json_counting_results(cfg, names, res) ==
    [checked_at |-> CheckedAt,
     config_summary |->
         [domains_monitored |-> Len(res),
          alert_threshold_days |-> cfg.monitoring.alert_threshold_days,
          email_enabled |-> cfg.notifications.email.enabled,
          slack_enabled |-> cfg.notifications.slack.enabled],
     results |-> res]

\* the JSON object save_results writes (json.dump keeps the dicts, lists,
\* strings and numbers of the results as they are; indent only changes the
\* layout of the text)
results_json(cfg, names, res) ==
    [checked_at |-> CheckedAt,
     config_summary |->
         [domains_monitored |-> Len(names),
          alert_threshold_days |-> cfg.monitoring.alert_threshold_days,
          email_enabled |-> cfg.notifications.email.enabled,
          slack_enabled |-> cfg.notifications.slack.enabled],
     results |-> res]

\* open(filename, 'w') and json.dump
Write(filename, content) == [write |-> filename, content |-> content]

\* save_results(filename): the writes it makes
save_results(cfg, names, res, filename) ==
    IF ~cfg.monitoring.save_results
    THEN <<>>
    ELSE <<Write(IF filename = None THEN cfg.monitoring.results_filename
                 ELSE filename[1],
                 results_json(cfg, names, res))>>

\* save_results(filename) on its own
SaveResults ==
    /\ pc = "idle"
    /\ phase = "none"
    /\ Len(trace) < MaxSaves
    /\ \E filename \in {None, Some("test_results.json")} :
          trace' = trace \o save_results(config, domains, results, filename)
    /\ calls' = <<>>
    /\ returned' = [op |-> "save_results", value |-> None]
    /\ UNCHANGED <<config, domains, results, pc, domain_result, toolVars,
                   phase, alert_list, files>>

\* self.authorize_tools()
RunAuthorizeTools ==
    /\ phase = "authorize"
    /\ \E statuses \in [1..Len(tools_to_authorize(config)) -> AuthStatuses] :
          trace' = trace \o authorize_tools(config, statuses)
    /\ phase' = "check"
    /\ returned' = [op |-> "authorize_tools", value |-> None]
    /\ UNCHANGED <<config, domains, results, pc, domain_result, calls,
                   toolVars, alert_list, files>>

\* self.check_all_domains(): the batch starts; it goes on with the steps
\* ExecuteCheckDomainExpiry and ExecuteCheckSslExpiry
RunCheckAllDomains ==
    /\ phase = "check"
    /\ returned.op = "authorize_tools"
    /\ CheckAllDomains

\* alerts = self.get_alerts(), the batch having returned
RunGetAlerts ==
    /\ phase = "check"
    /\ pc = "idle"
    /\ returned.op = "check_all_domains"
    /\ alert_list' = get_alerts(results, config)
    /\ returned' = [op |-> "get_alerts", value |-> alert_list']
    /\ trace' = trace \o calls
    /\ calls' = <<>>
    /\ phase' = "save"
    /\ UNCHANGED <<config, domains, results, pc, domain_result, toolVars, files>>

\* a run that saves the results only when there are alerts
RunSaveResults_if_alerts ==
    /\ phase = "save"
    /\ trace' = IF alert_list = <<>> THEN trace
                ELSE trace \o save_results(config, domains, results, None)
    /\ returned' = [op |-> "save_results", value |-> None]
    /\ phase' = "email"
    /\ UNCHANGED <<config, domains, results, pc, domain_result, calls,
                   toolVars, alert_list, files>>

\* self.save_results()
RunSaveResults ==
    /\ phase = "save"
    /\ trace' = trace \o save_results(config, domains, results, None)
    /\ returned' = [op |-> "save_results", value |-> None]
    /\ phase' = "email"
    /\ UNCHANGED <<config, domains, results, pc, domain_result, calls,
                   toolVars, alert_list, files>>

\* if alerts: if self.config.notifications.email.enabled:
\*     self.send_email_alert(alerts)
RunSendEmailAlert ==
    /\ phase = "email"
    /\ IF alert_list # <<>> /\ config.notifications.email.enabled
       THEN /\ \E outcomes \in [1..Len(config.notifications.email.recipients)
                                   -> SendOutcomes] :
                 trace' = trace \o send_email_alert(config, alert_list, outcomes)
            /\ returned' = [op |-> "send_email_alert", value |-> None]
       ELSE UNCHANGED <<trace, returned>>
    /\ phase' = "slack"
    /\ UNCHANGED <<config, domains, results, pc, domain_result, calls,
                   toolVars, alert_list, files>>

\* if alerts: if self.config.notifications.slack.enabled:
\*     self.send_slack_alert(alerts)
\* and the end of run(); an exception of send_slack_alert ends run() too
RunSendSlackAlert ==
    /\ phase = "slack"
    /\ IF alert_list # <<>> /\ config.notifications.slack.enabled
       THEN \E outcome \in SendOutcomes :
               LET sent == send_slack_alert(config, alert_list, outcome)
               IN /\ trace' = trace \o sent.calls
                  /\ IF sent.raised = None
                     THEN /\ returned' = [op |-> "run", value |-> None]
                          /\ phase' = "done"
                     ELSE /\ returned' = [op |-> "run", raised |-> sent.raised[1]]
                          /\ phase' = "failed"
       ELSE /\ returned' = [op |-> "run", value |-> None]
            /\ phase' = "done"
            /\ UNCHANGED trace
    /\ UNCHANGED <<config, domains, results, pc, domain_result, calls,
                   toolVars, alert_list, files>>

\* the domain counts of the monitors that run
RunDomainCounts == {0, 1, 2}

\* all recipients configured, the default markers
RunNotifications ==
    {n \in NotificationConfig :
        /\ Len(n.email.recipients) = MaxRecipients
        /\ n.slack.urgency_emojis = DefaultEmojis}

\* main(): the monitor is constructed and run() is entered.  The user id
\* varies on the monitors without domains, the threshold on those of at
\* most one domain.
RunInit ==
    /\ \E n \in RunDomainCounts, monitoring \in ShellMonitoring,
          notifications \in RunNotifications :
          /\ n > 0 => monitoring.user_id = UserId
          /\ n > 1 => monitoring.alert_threshold_days = 30
          /\ config = ShellConfig(n, monitoring, notifications)
    /\ domains = [k \in 1..Len(config.domains) |-> config.domains[k].name]
    /\ results = <<>>
    /\ pc = "idle"
    /\ domain_result = NoResult
    /\ calls = <<>>
    /\ returned = NoReturn
    /\ request = None
    /\ world = None
    /\ tool_call = NoToolCall
    /\ phase = "authorize"
    /\ alert_list = <<>>
    /\ trace = <<>>
    /\ files = NoFiles

RunNext ==
    \/ RunAuthorizeTools
    \/ RunCheckAllDomains
    \/ ExecuteCheckDomainExpiry
    \/ ExecuteCheckSslExpiry
    \/ RunGetAlerts
    \/ RunSaveResults
    \/ RunSendEmailAlert
    \/ RunSendSlackAlert

RunSpec == RunInit /\ [][RunNext]_vars

\* A monitor that holds the results of a batch, or that has not checked
\* yet (no results, any number of domains).
SaveInit ==
    /\ \E res \in NotifyResults, notifications \in RunNotifications,
          monitoring \in ShellMonitoring :
          /\ \E n \in (IF res = <<>> THEN 0..MaxNotifyResults ELSE {Len(res)}) :
                config = ShellConfig(n, monitoring, notifications)
          /\ results = res
    /\ domains = [k \in 1..Len(config.domains) |-> config.domains[k].name]
    /\ alert_list = <<>>
    /\ returned = NoReturn
    /\ pc = "idle"
    /\ domain_result = NoResult
    /\ calls = <<>>
    /\ request = None
    /\ world = None
    /\ tool_call = NoToolCall
    /\ phase = "none"
    /\ trace = <<>>
    /\ files = NoFiles

SaveNext == SaveResults

SaveSpec == SaveInit /\ [][SaveNext]_vars

----------------------------------------------------------------------------
(* config_loader.py: ConfigLoader.  A YAML document is the dict             *)
(* yaml.safe_load returns for it (a record; an absent key is an absent      *)
(* field), or nothing for an empty document.  The file system maps each     *)
(* name to an absent file, a file safe_load rejects, or a document.         *)

EmptyDict == <<>>

DEFAULT_CONFIG_FILES ==
    <<"domain_monitor_config.yaml", "config.yaml", "domain_config.yaml">>

CustomFile == "custom.yaml"
PythonModule == "domain_config.py"

YamlNames == {DEFAULT_CONFIG_FILES[k] : k \in 1..Len(DEFAULT_CONFIG_FILES)}
             \cup {CustomFile}
FileNames == YamlNames \cup {PythonModule}

Absent == [kind |-> "absent"]
Invalid == [kind |-> "invalid"]
Document(data) == [kind |-> "yaml", data |-> data]
Module == [kind |-> "module"]

\* os.path.exists
exists(fs, name) == name \in DOMAIN fs /\ fs[name].kind # "absent"

\* the defaults of the dataclasses
MonitoringDefaults ==
    [alert_threshold_days |-> 30, save_results |-> TRUE,
     results_filename |-> "domain_check_results.json", user_id |-> UserId]

EmailDefaults ==
    [enabled |-> TRUE, recipients |-> <<>>,
     subject_template |-> SubjectTemplate, include_detailed_info |-> TRUE]

SlackDefaults ==
    [enabled |-> FALSE, channel |-> "#alerts",
     message_template |-> MessageTemplate, urgency_emojis |-> DefaultEmojis]

AdvancedDefaults ==
    [whois_timeout_seconds |-> 30, ssl_timeout_seconds |-> 10,
     max_retry_attempts |-> 3, retry_delay_seconds |-> 5,
     logging_level |-> "INFO", console_colors |-> TRUE,
     json_pretty_print |-> TRUE]

\* a dataclass constructed with some of its fields given
With(defaults, given) ==
    [k \in DOMAIN defaults |-> IF k \in DOMAIN given THEN given[k] ELSE defaults[k]]

\* the domains loop: the DomainConfig list, or the KeyError of an entry
\* without a name
load_domains(domain_list) ==
    IF \E k \in 1..Len(domain_list) : "name" \notin DOMAIN domain_list[k]
    THEN Raised(Exc("KeyError", "'name'"))
    ELSE Returns([k \in 1..Len(domain_list) |->
             [name |-> domain_list[k].name,
              description |-> Get(domain_list[k], "description", ""),
              alert_threshold_days |->
                  GetOpt(domain_list[k], "alert_threshold_days")]])

\* the recipients loop
load_recipients(recipient_list) ==
    IF \E k \in 1..Len(recipient_list) : "email" \notin DOMAIN recipient_list[k]
    THEN Raised(Exc("KeyError", "'email'"))
    ELSE Returns([k \in 1..Len(recipient_list) |->
             [email |-> recipient_list[k].email,
              name |-> Get(recipient_list[k], "name", "")]])

\* a section written with nothing under it: safe_load gives None for it
Null == [yaml_null |-> TRUE]

\* x.get(...) raises on None
NoneHasNoGet ==
    Raised(Exc("AttributeError", "'NoneType' object has no attribute 'get'"))

\* _load_yaml_config, from the file: a DomainMonitorConfig or an exception
load_yaml_config(file) ==
    IF file.kind = "absent"
    THEN Raised(Exc("FileNotFoundError", "No such file or directory"))
    ELSE IF file.kind # "yaml"
    THEN Raised(Exc("YAMLError", "could not parse the document"))
    ELSE IF file.data = None
    THEN NoneHasNoGet
    ELSE LET data == file.data[1]
             monitoring_data == Get(data, "monitoring", EmptyDict)
             loaded_domains == load_domains(Get(data, "domains", <<>>))
             notifications_data == Get(data, "notifications", EmptyDict)
             email_data == Get(notifications_data, "email", EmptyDict)
             email_recipients ==
                 load_recipients(Get(email_data, "recipients", <<>>))
             slack_data == Get(notifications_data, "slack", EmptyDict)
             advanced_data == Get(data, "advanced", EmptyDict)
             timeouts == Get(advanced_data, "timeouts", EmptyDict)
             retry == Get(advanced_data, "retry", EmptyDict)
             logging == Get(advanced_data, "logging", EmptyDict)
             output == Get(advanced_data, "output", EmptyDict)
         IN IF monitoring_data = Null THEN NoneHasNoGet
            ELSE IF IsRaised(loaded_domains) THEN loaded_domains
            ELSE IF notifications_data = Null \/ email_data = Null
            THEN NoneHasNoGet
            ELSE IF IsRaised(email_recipients) THEN email_recipients
            ELSE IF Null \in {slack_data, advanced_data, timeouts, retry,
                              logging, output}
            THEN NoneHasNoGet
            ELSE Returns(
              [monitoring |-> With(MonitoringDefaults, monitoring_data),
               domains |-> loaded_domains.returns,
               notifications |->
                  [email |->
                      [enabled |-> Get(email_data, "enabled", TRUE),
                       recipients |-> email_recipients.returns,
                       subject_template |->
                           Get(email_data, "subject_template", SubjectTemplate),
                       include_detailed_info |->
                           Get(email_data, "include_detailed_info", TRUE)],
                   slack |-> With(SlackDefaults, slack_data)],
               advanced |->
                  [whois_timeout_seconds |->
                       Get(timeouts, "whois_timeout_seconds", 30),
                   ssl_timeout_seconds |->
                       Get(timeouts, "ssl_timeout_seconds", 10),
                   max_retry_attempts |-> Get(retry, "max_attempts", 3),
                   retry_delay_seconds |-> Get(retry, "retry_delay_seconds", 5),
                   logging_level |-> Get(logging, "level", "INFO"),
                   console_colors |-> Get(output, "console_colors", TRUE),
                   json_pretty_print |-> Get(output, "json_pretty_print", TRUE)]])

\* domain_config.py
DOMAINS_TO_MONITOR ==
    <<"google.com", "github.com", "stackoverflow.com", "example.com">>
EMAIL_RECIPIENTS == <<"kig@kig.re">>

\* _load_python_config: the ImportError of a missing module, else the
\* configuration made of its constants
load_python_config(fs) ==
    IF ~exists(fs, PythonModule)
    THEN Raised(Exc("ImportError", "No module named 'domain_config'"))
    ELSE Returns(
      [monitoring |-> MonitoringDefaults,
       domains |-> [k \in 1..Len(DOMAINS_TO_MONITOR) |->
                       [name |-> DOMAINS_TO_MONITOR[k], description |-> "",
                        alert_threshold_days |-> None]],
       notifications |->
          [email |-> With(EmailDefaults,
                        [enabled |-> TRUE,
                         recipients |->
                             [k \in 1..Len(EMAIL_RECIPIENTS) |->
                                 [email |-> EMAIL_RECIPIENTS[k], name |-> ""]]]),
           slack |-> With(SlackDefaults,
                        [enabled |-> FALSE, channel |-> "#alerts"])],
       advanced |-> AdvancedDefaults])

\* _load_default_config
load_default_config ==
    [monitoring |-> MonitoringDefaults,
     domains |->
        <<[name |-> "google.com", description |-> "Google's main domain",
           alert_threshold_days |-> None],
          [name |-> "github.com", description |-> "GitHub platform",
           alert_threshold_days |-> None],
          [name |-> "example.com", description |-> "Example domain",
           alert_threshold_days |-> None]>>,
     notifications |->
        [email |-> With(EmailDefaults,
                      [recipients |-> <<[email |-> "kig@kig.re",
                                         name |-> "Admin"]>>]),
         slack |-> SlackDefaults],
     advanced |-> AdvancedDefaults]

\* candidates that keep the default names after the given file
config_files_and_defaults(config_file) ==
    IF config_file # None /\ config_file[1] # ""
    THEN <<config_file[1]>> \o DEFAULT_CONFIG_FILES
    ELSE DEFAULT_CONFIG_FILES

\* the candidates: if config_file: [config_file] else the default names
config_files(config_file) ==
    IF config_file # None /\ config_file[1] # ""
    THEN <<config_file[1]>>
    ELSE DEFAULT_CONFIG_FILES

\* the Python fallback, then the built-in default
load_fallback(fs) ==
    LET python == load_python_config(fs)
    IN IF IsRaised(python) THEN load_default_config ELSE python.returns

\* the loop over the candidates from the i-th on
RECURSIVE load_loop(_, _, _)
load_loop(candidates, i, fs) ==
    IF i > Len(candidates)
    THEN load_fallback(fs)
    ELSE IF exists(fs, candidates[i])
            /\ ~IsRaised(load_yaml_config(fs[candidates[i]]))
    THEN load_yaml_config(fs[candidates[i]]).returns
    ELSE load_loop(candidates, i + 1, fs)

load_config(config_file, fs) == load_loop(config_files(config_file), 1, fs)

\* the dict save_config builds for one domain: the override is written
\* only when it is truthy
save_domain(domain) ==
    IF Truthy(domain.alert_threshold_days)
    THEN [name |-> domain.name, description |-> domain.description,
          alert_threshold_days |-> domain.alert_threshold_days[1]]
    ELSE [name |-> domain.name, description |-> domain.description]

\* the dict save_config builds
save_data(c) ==
    [monitoring |->
        [alert_threshold_days |-> c.monitoring.alert_threshold_days,
         save_results |-> c.monitoring.save_results,
         results_filename |-> c.monitoring.results_filename,
         user_id |-> c.monitoring.user_id],
     domains |-> [k \in 1..Len(c.domains) |-> save_domain(c.domains[k])],
     notifications |->
        [email |->
            [enabled |-> c.notifications.email.enabled,
             recipients |->
                 [k \in 1..Len(c.notifications.email.recipients) |->
                     [email |-> c.notifications.email.recipients[k].email,
                      name |-> c.notifications.email.recipients[k].name]],
             subject_template |-> c.notifications.email.subject_template,
             include_detailed_info |->
                 c.notifications.email.include_detailed_info],
         slack |->
            [enabled |-> c.notifications.slack.enabled,
             channel |-> c.notifications.slack.channel,
             message_template |-> c.notifications.slack.message_template,
             urgency_emojis |-> c.notifications.slack.urgency_emojis]],
     advanced |->
        [timeouts |->
            [whois_timeout_seconds |-> c.advanced.whois_timeout_seconds,
             ssl_timeout_seconds |-> c.advanced.ssl_timeout_seconds],
         retry |->
            [max_attempts |-> c.advanced.max_retry_attempts,
             retry_delay_seconds |-> c.advanced.retry_delay_seconds],
         logging |-> [level |-> c.advanced.logging_level],
         output |->
            [console_colors |-> c.advanced.console_colors,
             json_pretty_print |-> c.advanced.json_pretty_print]]]

\* yaml.dump of a dict of strings, numbers, booleans, lists and dicts: the
\* document safe_load reads back as that dict
yaml_dump(data) == Document(Some(data))

\* save_config: the file system with the file written
save_config(c, filename, fs) ==
    [fs EXCEPT ![filename] = yaml_dump(save_data(c))]

\* the config_file arguments of load_config
ConfigFileArgs == {None, Some(CustomFile), Some(DEFAULT_CONFIG_FILES[2])}

\* load_config(config_file)
LoadConfig ==
    /\ pc = "idle"
    /\ phase = "none"
    /\ \E config_file \in ConfigFileArgs :
          returned' = [op |-> "load_config", config_file |-> config_file,
                       value |-> load_config(config_file, files)]
    /\ UNCHANGED <<config, domains, results, pc, domain_result, calls,
                   toolVars, phase, alert_list, trace, files>>

\* ConfigLoader._load_yaml_config(config_file), called on its own
LoadYamlConfig ==
    /\ pc = "idle"
    /\ phase = "none"
    /\ \E config_file \in YamlNames :
          returned' = [op |-> "_load_yaml_config",
                       config_file |-> Some(config_file),
                       outcome |-> load_yaml_config(files[config_file])]
    /\ UNCHANGED <<config, domains, results, pc, domain_result, calls,
                   toolVars, phase, alert_list, trace, files>>

\* ConfigLoader.save_config(self.config, filename)
SaveConfig ==
    /\ pc = "idle"
    /\ phase = "none"
    /\ Len(trace) < MaxSaves
    /\ \E filename \in {DEFAULT_CONFIG_FILES[1], CustomFile} :
          /\ files' = save_config(config, filename, files)
          /\ trace' = Append(trace, Write(filename, files'[filename]))
    /\ returned' = [op |-> "save_config", value |-> None]
    /\ UNCHANGED <<config, domains, results, pc, domain_result, calls,
                   toolVars, phase, alert_list>>

\* a document whose one domain is named after the file
NamedDocument(name) == Document(Some([domains |-> <<[name |-> name]>>]))

\* a document whose domain entry has no name, and the empty document
NamelessDocument == Document(Some([domains |-> <<[description |-> "nameless"]>>]))
EmptyDocument == Document(None)

\* the file systems load_config meets
FileSystems ==
    {fs \in [FileNames -> {Absent, Invalid, EmptyDocument, NamelessDocument,
                           Module}
                          \cup {NamedDocument(n) : n \in YamlNames}] :
        /\ fs[PythonModule] \in {Absent, Module}
        /\ \A n \in YamlNames :
              fs[n] \in {Absent, Invalid, EmptyDocument, NamelessDocument,
                         NamedDocument(n)}}

\* no YAML file yet, the Python module in place
NoYamlFiles == [n \in FileNames |-> IF n = PythonModule THEN Module ELSE Absent]

\* the longest domain list of a configuration that is saved
MaxSavedDomains == 1

SavedDomainLists ==
    SeqsUpTo([name : DomainNames, description : {"", "Main site"},
              alert_threshold_days : Overrides], MaxSavedDomains)

CustomAdvanced ==
    [whois_timeout_seconds |-> 15, ssl_timeout_seconds |-> 7,
     max_retry_attempts |-> 2, retry_delay_seconds |-> 1,
     logging_level |-> "DEBUG", console_colors |-> FALSE,
     json_pretty_print |-> FALSE]

\* the configurations that are saved
SavedConfigs ==
    [monitoring : [alert_threshold_days : {0, 30}, save_results : BOOLEAN,
                   results_filename : {"domain_check_results.json"},
                   user_id : {UserId}],
     domains : SavedDomainLists,
     notifications :
        [email : [enabled : BOOLEAN, recipients : RecipientLists,
                  subject_template : {SubjectTemplate},
                  include_detailed_info : {TRUE}],
         slack : {SlackDefaults}],
     advanced : {AdvancedDefaults, CustomAdvanced}]

\* two dicts in one
Merge(a, b) ==
    [k \in DOMAIN a \cup DOMAIN b |-> IF k \in DOMAIN a THEN a[k] ELSE b[k]]

\* a key that is left out, or written with one of the values
YamlKey(key, values) == {EmptyDict} \cup {[k \in {key} |-> v] : v \in values}

\* the sections as they are written: empty, with some keys, with all
MonitoringSections ==
    {EmptyDict,
     [user_id |-> "minimal@example.com"],
     [alert_threshold_days |-> 14],
     [alert_threshold_days |-> 14, save_results |-> FALSE,
      results_filename |-> "results.json", user_id |-> "ops@example.com"]}

DomainSections ==
    {<<>>,
     <<[name |-> "minimal.com"]>>,
     <<[name |-> "a.com", description |-> "Main site",
        alert_threshold_days |-> 60],
       [name |-> "minimal.com"]>>}

EmailSections ==
    {EmptyDict,
     [enabled |-> FALSE],
     [enabled |-> TRUE, recipients |-> <<>>],
     [recipients |-> <<[email |-> "r1@example.com"]>>]}

SlackSections == {EmptyDict, [enabled |-> TRUE], [channel |-> "#ops"]}

NotificationSections ==
    {Merge(e, sl) : e \in YamlKey("email", EmailSections),
                    sl \in YamlKey("slack", SlackSections)}

AdvancedSections ==
    {EmptyDict,
     [timeouts |-> EmptyDict],
     [timeouts |-> [whois_timeout_seconds |-> 15]],
     [retry |-> [max_attempts |-> 2]],
     [timeouts |-> [ssl_timeout_seconds |-> 7],
      retry |-> [retry_delay_seconds |-> 1],
      logging |-> [level |-> "DEBUG"], output |-> EmptyDict]}

\* documents with any of the four top-level sections left out
PartialDocuments ==
    {Document(Some(Merge(Merge(m, d), Merge(n, a)))) :
        m \in YamlKey("monitoring", MonitoringSections),
        d \in YamlKey("domains", DomainSections),
        n \in YamlKey("notifications", NotificationSections),
        a \in YamlKey("advanced", AdvancedSections)}

\* documents with a section that is written with nothing under it
NullSectionDocuments ==
    {Document(Some(data)) :
        data \in {[monitoring |-> Null],
                  [notifications |-> Null],
                  [notifications |-> [email |-> Null]],
                  [notifications |-> [slack |-> Null]],
                  [advanced |-> Null],
                  [advanced |-> [retry |-> Null]]}}

\* the given file holds the document, the Python module is in place
CustomFileSystems ==
    {[n \in FileNames |->
         IF n = CustomFile THEN doc
         ELSE IF n = PythonModule THEN Module ELSE Absent] :
        doc \in PartialDocuments \cup NullSectionDocuments}

\* the built-in configuration and any file system, or a configuration to
\* save and no YAML file, or a document with sections left out
ConfigInit ==
    /\ \/ config = load_default_config /\ files \in FileSystems
       \/ config \in SavedConfigs /\ files = NoYamlFiles
       \/ config = load_default_config /\ files \in CustomFileSystems
    /\ domains = [k \in 1..Len(config.domains) |-> config.domains[k].name]
    /\ results = <<>>
    /\ pc = "idle"
    /\ domain_result = NoResult
    /\ calls = <<>>
    /\ returned = NoReturn
    /\ request = None
    /\ world = None
    /\ tool_call = NoToolCall
    /\ phase = "none"
    /\ alert_list = <<>>
    /\ trace = <<>>

ConfigNext ==
    \/ LoadConfig
    \/ LoadYamlConfig
    \/ SaveConfig

ConfigSpec == ConfigInit /\ [][ConfigNext]_vars

----------------------------------------------------------------------------
(* The batch check of a monitor whose configuration has the advanced        *)
(* section: the retry settings are loaded but check_domain does not read    *)
(* them.                                                                    *)

\* advanced.retry.max_attempts as configured
RetryAttempts == {0, 1, 3}

\* domains without overrides, the default threshold
CheckConfigs ==
    {[domains |-> d,
      monitoring |-> [alert_threshold_days |-> 30],
      advanced |-> With(AdvancedDefaults, [max_retry_attempts |-> r])] :
        d \in {l \in DomainLists :
                  \A k \in 1..Len(l) : l[k].alert_threshold_days = None},
        r \in RetryAttempts}

CheckInit ==
    /\ config \in CheckConfigs
    /\ domains = [k \in 1..Len(config.domains) |-> config.domains[k].name]
    /\ results = <<>>
    /\ pc = "idle"
    /\ domain_result = NoResult
    /\ calls = <<>>
    /\ returned = NoReturn
    /\ request = None
    /\ world = None
    /\ tool_call = NoToolCall
    /\ phase = "none"
    /\ alert_list = <<>>
    /\ trace = <<>>
    /\ files = NoFiles

CheckNext ==
    \/ CheckAllDomains
    \/ ExecuteCheckDomainExpiry
    \/ ExecuteCheckSslExpiry

CheckSpec == CheckInit /\ [][CheckNext]_vars

----------------------------------------------------------------------------
(* Helpers of the properties *)

HasError(result) == "error" \in DOMAIN result

\* the sub-check an alert of this type is about
SubCheck(result, type) ==
    IF type = "domain_registration" THEN result.domain_check ELSE result.ssl_check

AlertTypes == {"domain_registration", "ssl_certificate"}

\* the threshold as section 4.4 resolves it: the alert_threshold_days of the
\* (first) DomainConfig of that name when present and non-null, else the
\* global one
EffectiveThreshold(cfg, domain_name) ==
    LET dc == domain_config_for(cfg, domain_name)
    IN IF dc # None /\ dc[1].alert_threshold_days # None
       THEN dc[1].alert_threshold_days[1]
       ELSE cfg.monitoring.alert_threshold_days

\* status success and an integer day count within the threshold
WithinThreshold(check, threshold) ==
    /\ GetOpt(check, "status") = Some("success")
    /\ "days_until_expiry" \in DOMAIN check
    /\ check.days_until_expiry \in Int
    /\ check.days_until_expiry <= threshold

AlertsReturned == returned.op = "get_alerts"

----------------------------------------------------------------------------
(* C1: every alert record returned by get_alerts derives from a result      *)
(* without a top-level error whose sub-check of the alert's type has status *)
(* success and an integer days_until_expiry <= the alert's threshold, and   *)
(* the alert carries that day count.                                        *)
C1_AlertImpliesWithinThreshold ==
    AlertsReturned =>
        \A p \in 1..Len(returned.value) :
            LET a == returned.value[p]
            IN \E i \in 1..Len(results) :
                  /\ ~HasError(results[i])
                  /\ results[i].domain = a.domain
                  /\ WithinThreshold(SubCheck(results[i], a.type), a.threshold)
                  /\ a.days_until_expiry =
                         Some(SubCheck(results[i], a.type).days_until_expiry)

(* C2: for every result without a top-level error, get_alerts emits a       *)
(* domain_registration alert (carrying the registrar) exactly when          *)
(* domain_check is a success with days_until_expiry <= the effective        *)
(* threshold, and an ssl_certificate alert (without a registrar field)      *)
(* exactly when ssl_check is; so the list returned for a single result has  *)
(* 0, 1 or 2 alerts.                                                        *)
ClaimedAlerts(result, cfg) ==
    LET t == EffectiveThreshold(cfg, result.domain)
        reg == IF WithinThreshold(result.domain_check, t)
               THEN <<"domain_registration">> ELSE <<>>
        ssl == IF WithinThreshold(result.ssl_check, t)
               THEN <<"ssl_certificate">> ELSE <<>>
    IN reg \o ssl

C2_AlertExactlyWhenWithinThreshold ==
    AlertsReturned =>
        \A i \in 1..Len(results) :
            ~HasError(results[i]) =>
                LET got == get_alerts(<<results[i]>>, config)
                IN /\ [p \in 1..Len(got) |-> got[p].type]
                        = ClaimedAlerts(results[i], config)
                   /\ \A p \in 1..Len(got) :
                        IF got[p].type = "domain_registration"
                        THEN got[p].registrar
                                = GetOpt(results[i].domain_check, "registrar")
                        ELSE "registrar" \notin DOMAIN got[p]

(* C3: the threshold get_alerts applies and records in its alerts is the    *)
(* per-domain override whenever that is present and non-null (for every     *)
(* integer, 0 included), else the global threshold.                         *)
C3_OverrideWheneverNonNull ==
    AlertsReturned =>
        \A p \in 1..Len(returned.value) :
            returned.value[p].threshold
                = EffectiveThreshold(config, returned.value[p].domain)

(* C4: a result with a top-level error key yields no alert, whatever        *)
(* sub-checks the same record embeds, and the alerts returned are those of  *)
(* the other results alone.                                                 *)
WithErrorKey(result) ==
    [k \in DOMAIN result \cup {"error"} |->
        IF k = "error" THEN "Network error" ELSE result[k]]

C4_ErrorResultsYieldNoAlert ==
    AlertsReturned =>
        /\ returned.value
              = get_alerts(SelectSeq(results, LAMBDA r : ~HasError(r)), config)
        /\ \A i \in 1..Len(results) :
              /\ HasError(results[i]) => get_alerts(<<results[i]>>, config) = <<>>
              /\ get_alerts(<<WithErrorKey(results[i])>>, config) = <<>>
        /\ (\A i \in 1..Len(results) : HasError(results[i]))
              => returned.value = <<>>

C4_Witness ==
    /\ AlertsReturned
    /\ Len(results) = 2
    /\ HasError(results[1])
    /\ ~HasError(results[2])
    /\ results[1].domain = results[2].domain
    /\ Len(returned.value) = 2

(* C5: the alert list follows the input order: it is the concatenation,     *)
(* result by result, of each result's alerts, and within one result the     *)
(* domain_registration alert precedes the ssl_certificate alert; there is   *)
(* no sorting by day count.                                                 *)
C5_AlertsInResultOrder ==
    AlertsReturned =>
        /\ returned.value
              = Concat([i \in 1..Len(results) |->
                           get_alerts(<<results[i]>>, config)])
        /\ \A i \in 1..Len(results) :
              LET one == get_alerts(<<results[i]>>, config)
              IN /\ Len(one) <= 2
                 /\ Len(one) = 2 => /\ one[1].type = "domain_registration"
                                    /\ one[2].type = "ssl_certificate"

C5_Witness ==
    /\ AlertsReturned
    /\ Len(results) = 2
    /\ Len(returned.value) = 3
    /\ returned.value[1].type = "domain_registration"
    /\ returned.value[1].days_until_expiry = Some(45)
    /\ returned.value[2].type = "ssl_certificate"
    /\ returned.value[2].days_until_expiry = Some(15)
    /\ returned.value[3].days_until_expiry = Some(15)

(* C6: check_all_domains returns one entry per configured domain, in the    *)
(* configured order, whatever the per-domain outcomes: both tools are       *)
(* attempted for every domain unless the first raises, a domain whose check *)
(* raised has an entry with domain and error, and a domain whose check did  *)
(* not raise has an entry with domain_check and ssl_check and no error.     *)

\* per checked domain, from the execution log: the domain and whether one of
\* its executions raised
RECURSIVE BatchOutcomes(_)
BatchOutcomes(log) ==
    IF log = <<>>
    THEN <<>>
    ELSE IF log[1].raised
    THEN <<[domain |-> log[1].domain, raised |-> TRUE]>>
             \o BatchOutcomes(Tail(log))
    ELSE IF Len(log) >= 2
    THEN <<[domain |-> log[1].domain, raised |-> log[2].raised]>>
             \o BatchOutcomes(SubSeq(log, 3, Len(log)))
    ELSE <<>>

C6_OneEntryPerDomain ==
    returned.op = "check_all_domains" =>
        LET out == BatchOutcomes(calls)
        IN /\ returned.value = results
           /\ Len(results) = Len(domains)
           /\ Len(out) = Len(domains)
           /\ \A i \in 1..Len(domains) :
                 /\ results[i].domain = domains[i]
                 /\ out[i].domain = domains[i]
                 /\ IF out[i].raised
                    THEN /\ HasError(results[i])
                         /\ "domain_check" \notin DOMAIN results[i]
                    ELSE /\ ~HasError(results[i])
                         /\ {"domain_check", "ssl_check"} \subseteq DOMAIN results[i]

C6_Witness ==
    /\ returned.op = "check_all_domains"
    /\ Len(domains) = 2
    /\ HasError(results[1])
    /\ ~HasError(results[2])
    /\ results[2].domain_check.status = "success"

----------------------------------------------------------------------------
(* Properties of the checkers (specification ToolSpec) *)

Called == tool_call.tool # "none"
Result == tool_call.outcome.returns
Succeeded == Called /\ ~IsRaised(tool_call.outcome) /\ Result.status = "success"

ExpiryFields ==
    {"expiration_date", "days_until_expiry", "is_expired", "expires_soon"}

(* C7: the checkers never propagate an exception: whatever the WHOIS query, *)
(* the TCP connect, the TLS handshake and the date parsing do, a call       *)
(* returns one result with status success or error; an error result has a   *)
(* message and none of the expiry fields, a success result has all four.    *)
C7_AlwaysAResult ==
    Called =>
        /\ ~IsRaised(tool_call.outcome)
        /\ Result.status \in {"success", "error"}
        /\ Result.status = "error" =>
              /\ "message" \in DOMAIN Result
              /\ DOMAIN Result \cap ExpiryFields = {}
        /\ Result.status = "success" => ExpiryFields \subseteq DOMAIN Result

C7_Witness ==
    /\ tool_call.tool = "check_domain_expiry"
    /\ world[1].whois.kind = "record"
    /\ world[1].whois.expiration_date = [kind |-> "list", items |-> <<>>]
    /\ ~IsRaised(tool_call.outcome)
    /\ Result.status = "error"
    /\ Result.message = <<"Error checking domain: ", "list index out of range">>

(* C8: for every host h and every input made of an optional scheme, an      *)
(* optional www. prefix, h and an optional path, the cleaning yields h, and *)
(* that is the name passed to the WHOIS query and to the TCP connection.    *)
C8_CleaningYieldsHost ==
    Called =>
        \A sc \in Schemes, w \in WwwPrefixes, h \in Hosts, pa \in Paths :
            request[1].domain = Variation(sc, w, h, pa) =>
                IF tool_call.tool = "check_domain_expiry"
                THEN tool_call.whois_query = Some(h)
                ELSE tool_call.connect[1].host = h

\* the expiration instant the checker worked on, and the clock, in seconds
\* of UTC
Instant(dt) == dt.date * 86400 + dt.sec - (IF dt.tz = None THEN 0 ELSE dt.tz[1])

CheckedExpiration ==
    IF tool_call.tool = "check_domain_expiry"
    THEN LET e == world[1].whois.expiration_date
         IN IF e.kind = "list" THEN e.items[1] ELSE e.value
    ELSE LET n == world[1].tls.cert.notAfter
         IN [date |-> n.date, sec |-> n.sec, tz |-> UTC]

SecondsLeft == Instant(CheckedExpiration) - Instant(world[1].now)

(* C9: in every success result days_until_expiry is the floor of            *)
(* (expiration instant - now) / 1 day, instants taken in UTC, also for      *)
(* negative differences; so an expiration N whole days after t0, checked at *)
(* a now with t0 <= now < t0 + 1 day, gives N - 1 or N.                     *)
C9_DaysIsFloor ==
    Succeeded =>
        LET days == Result.days_until_expiry
        IN /\ days * 86400 <= SecondsLeft
           /\ SecondsLeft < (days + 1) * 86400
           /\ \A N \in (-MaxDayOffset - 1)..(MaxDayOffset + 1) :
                LET t0 == Instant(CheckedExpiration) - N * 86400
                IN (t0 <= Instant(world[1].now) /\ Instant(world[1].now) < t0 + 86400)
                      => days \in {N - 1, N}

\* expired one hour ago: midnight at +01:00 checked at midnight UTC
C9_Witness ==
    /\ Succeeded
    /\ tool_call.tool = "check_domain_expiry"
    /\ CheckedExpiration.tz = Some(3600)
    /\ SecondsLeft = -3600
    /\ Result.days_until_expiry = -1

(* C10: in every success result is_expired holds exactly when               *)
(* days_until_expiry < 0 and expires_soon exactly when                      *)
(* 0 <= days_until_expiry <= 30, whatever alert threshold is configured;    *)
(* the two are never both true.                                             *)
C10_ExpiryFlags ==
    Succeeded =>
        LET days == Result.days_until_expiry
        IN /\ Result.is_expired = (days < 0)
           /\ Result.expires_soon = (0 <= days /\ days <= 30)
           /\ ~(Result.is_expired /\ Result.expires_soon)

C10_Witness ==
    /\ Succeeded
    /\ tool_call.tool = "check_ssl_expiry"
    /\ config.monitoring.alert_threshold_days = 999
    /\ Result.days_until_expiry = 30
    /\ Result.expires_soon
    /\ ~Result.is_expired

WhoisResponse == world[1].whois

\* an expiration_date field in which no timestamp is present
HoldsNoTimestamp(expiration_date) ==
    \/ expiration_date.kind = "none"
    \/ expiration_date.kind = "list" /\ expiration_date.items = <<>>

\* the same call in a world whose WHOIS record carries the one timestamp
WithExpiration(w, timestamp) ==
    [w EXCEPT !.whois.expiration_date =
                  [kind |-> "datetime", value |-> timestamp]]

(* C11: check_domain_expiry maps the WHOIS outcomes to results: a raising   *)
(* query gives the error 'Error checking domain: <cause>', an absent        *)
(* response 'Domain not found.', a response whose expiration field is None  *)
(* or a collection holding no timestamp 'Could not determine expiration     *)
(* date'; a collection of timestamps gives the result of its first element; *)
(* the status is success only otherwise.                                    *)
C11_WhoisOutcomes ==
    (Called /\ tool_call.tool = "check_domain_expiry") =>
        LET r == WhoisResponse
        IN /\ ~IsRaised(tool_call.outcome)
           /\ r.kind = "raises" =>
                 /\ Result.status = "error"
                 /\ Result.message = <<"Error checking domain: ", r.cause>>
           /\ r.kind = "none" =>
                 /\ Result.status = "error"
                 /\ Result.message = <<"Domain not found.">>
           /\ (r.kind = "record" /\ HoldsNoTimestamp(r.expiration_date)) =>
                 /\ Result.status = "error"
                 /\ Result.message = <<"Could not determine expiration date">>
           /\ (r.kind = "record" /\ r.expiration_date.kind = "list"
                  /\ r.expiration_date.items # <<>>) =>
                 tool_call.outcome =
                     check_domain_expiry(request[1].domain,
                         WithExpiration(world[1], r.expiration_date.items[1]))
           /\ Result.status = "success" =>
                 /\ r.kind = "record"
                 /\ ~HoldsNoTimestamp(r.expiration_date)

\* the failure kinds of the TLS checker and their messages
SslMessage(e) ==
    IF e.exc = "socket.gaierror" THEN <<"Domain not found or not reachable">>
    ELSE IF e.exc = "socket.timeout" THEN <<"Connection timeout">>
    ELSE IF e.exc = "ssl.SSLError" THEN <<"SSL error: ", e.cause>>
    ELSE <<"Error checking SSL certificate: ", e.cause>>

(* C12: check_ssl_expiry maps each failure kind to its own message: a       *)
(* resolution failure gives 'Domain not found or not reachable', a          *)
(* connection timeout 'Connection timeout', a TLS handshake failure         *)
(* 'SSL error: <cause>', any other exception 'Error checking SSL            *)
(* certificate: <cause>'; every call makes exactly one connection attempt.  *)
C12_SslFailureMessages ==
    (Called /\ tool_call.tool = "check_ssl_expiry") =>
        /\ Len(tool_call.connect) = 1
        /\ ~IsRaised(tool_call.outcome)
        /\ world[1].tls.kind = "raises" =>
              /\ Result.status = "error"
              /\ Result.message = SslMessage(world[1].tls.error)
        /\ (world[1].tls.kind = "cert" /\ Result.status = "error") =>
              /\ Len(Result.message) = 2
              /\ Result.message[1] = "Error checking SSL certificate: "

\* a refused connection is none of the three named kinds
C12_Witness ==
    /\ tool_call.tool = "check_ssl_expiry"
    /\ world[1].tls.kind = "raises"
    /\ world[1].tls.error.exc = "ConnectionRefusedError"
    /\ Len(tool_call.connect) = 1
    /\ Result.message =
           <<"Error checking SSL certificate: ", "Connection refused">>

----------------------------------------------------------------------------
(* Properties of the notifications (specification NotifySpec) *)

EmailOn == config.notifications.email.enabled
SlackOn == config.notifications.slack.enabled
Recipients == config.notifications.email.recipients

SlackCalls == SelectSeq(calls, LAMBDA c : c.tool_name = "Slack.SendMessage")

\* the urgency label section 4.5 gives a day count
UrgencyLabel(days) ==
    IF days <= 7 THEN "critical"
    ELSE IF 8 <= days /\ days <= 30 THEN "warning"
    ELSE "info"

\* the configured marker of a label, else the built-in one
Marker(label) ==
    LET configured == config.notifications.slack.urgency_emojis
    IN IF label \in DOMAIN configured THEN configured[label]
       ELSE DefaultEmojis[label]

(* C14: in every Slack message send_slack_alert builds, the first line is   *)
(* the header carrying the number of alerts and it is followed by one line  *)
(* per alert, in alert order, each prefixed by the marker of 'critical'     *)
(* when days_until_expiry <= 7 (negative counts included), of 'warning'     *)
(* when 8 <= days <= 30 and of 'info' when days > 30.                       *)
C14_SlackMarkers ==
    \A c \in 1..Len(SlackCalls) :
        LET text == SlackCalls[c].input.text
        IN /\ Len(text) = 1 + Len(alert_list)
           /\ text[1] = ":rotating_light: *Domain Alert* - "
                        \o ToString(Len(alert_list))
                        \o " domain(s) expiring soon:"
           /\ \A i \in 1..Len(alert_list) :
                LET a == alert_list[i]
                    days == a.days_until_expiry[1]
                IN text[i + 1] =
                       Marker(UrgencyLabel(days)) \o " *" \o a.domain \o "* ("
                       \o TypeTitle(a.type) \o ") - " \o ToString(days)
                       \o " days left"

\* an expired registration and a certificate with 31 days left
C14_Witness ==
    /\ Len(SlackCalls) = 1
    /\ config.notifications.slack.urgency_emojis = DefaultEmojis
    /\ SlackCalls[1].input.text =
           <<":rotating_light: *Domain Alert* - 2 domain(s) expiring soon:",
             ":red_circle: *a.com* (Domain Registration) - -3 days left",
             ":information: *a.com* (Ssl Certificate) - 31 days left">>

(* C15: send_email_alert executes no tool when the alert list is empty or   *)
(* email is disabled; otherwise it executes Gmail.SendEmail exactly once    *)
(* per configured recipient, in recipient order, all with the same body and *)
(* with the subject template with count set to the number of alerts; a      *)
(* send that raises neither prevents the following sends nor propagates.    *)
C15_OneEmailPerRecipient ==
    returned.op = "send_email_alert" =>
        /\ "raised" \notin DOMAIN returned
        /\ IF alert_list = <<>> \/ ~EmailOn
           THEN calls = <<>>
           ELSE /\ Len(calls) = Len(Recipients)
                /\ \A k \in 1..Len(calls) :
                     /\ calls[k].tool_name = "Gmail.SendEmail"
                     /\ calls[k].input.to = Recipients[k].email
                     /\ calls[k].input.subject =
                            ":rotating_light: Domain Expiration Alert - "
                            \o ToString(Len(alert_list))
                            \o " domain(s) expiring soon"
                     /\ calls[k].input.body = calls[1].input.body

\* the send to the first of two recipients raised, the second was made
C15_Witness ==
    /\ returned.op = "send_email_alert"
    /\ Len(alert_list) = 2
    /\ Len(calls) = 2
    /\ calls[1].raised
    /\ ~calls[2].raised
    /\ calls[1].input.to = "r1@example.com"
    /\ calls[2].input.to = "r2@example.com"
    /\ calls[2].input.subject =
           ":rotating_light: Domain Expiration Alert - 2 domain(s) expiring soon"

(* C16: send_slack_alert executes no tool when the alert list is empty or   *)
(* Slack is disabled; otherwise it executes Slack.SendMessage exactly once, *)
(* to the configured channel, whatever the number of alerts; a send that    *)
(* raises does not propagate to the caller.                                 *)
C16_OneSlackMessage ==
    returned.op = "send_slack_alert" =>
        /\ "raised" \notin DOMAIN returned
        /\ IF alert_list = <<>> \/ ~SlackOn
           THEN calls = <<>>
           ELSE /\ Len(calls) = 1
                /\ calls[1].tool_name = "Slack.SendMessage"
                /\ calls[1].input.channel = config.notifications.slack.channel

----------------------------------------------------------------------------
(* Properties of run() (specification RunSpec) *)

IsAuthorize(e) == "authorize" \in DOMAIN e
IsWait(e) == "wait_for_completion" \in DOMAIN e
IsWrite(e) == "write" \in DOMAIN e
IsExecute(e) == "tool_name" \in DOMAIN e

CheckTools ==
    {"domain_name_toolkit.check_domain_expiry",
     "domain_name_toolkit.check_ssl_expiry"}

Requests17 == SelectSeq(trace, IsAuthorize)

(* C17: authorize_tools requests authorization, with the configured         *)
(* user_id, for exactly check_domain_expiry, check_ssl_expiry and           *)
(* Gmail.SendEmail, plus Slack.SendMessage exactly when Slack is enabled    *)
(* (three or four requests, Gmail also when email is disabled); it waits    *)
(* for completion exactly when the status of the response is not            *)
(* 'completed', and does so before it requests the next tool.               *)
C17_AuthorizationRequests ==
    phase # "authorize" =>
        /\ Len(Requests17) = IF SlackOn THEN 4 ELSE 3
        /\ {Requests17[k].authorize : k \in 1..Len(Requests17)} =
               CheckTools \cup {"Gmail.SendEmail"}
               \cup (IF SlackOn THEN {"Slack.SendMessage"} ELSE {})
        /\ \A k \in 1..Len(Requests17) :
               Requests17[k].user_id = config.monitoring.user_id
        /\ \A p \in 1..Len(trace) :
             /\ IsAuthorize(trace[p]) =>
                   (trace[p].status # "completed"
                       <=> /\ p < Len(trace)
                           /\ IsWait(trace[p + 1])
                           /\ trace[p + 1].wait_for_completion
                                  = trace[p].authorize)
             /\ IsWait(trace[p]) => p > 1 /\ IsAuthorize(trace[p - 1])

\* email disabled, Slack enabled, the second response is pending: four
\* requests, one wait right after the second
C17_Witness ==
    /\ phase = "check"
    /\ ~EmailOn
    /\ SlackOn
    /\ config.monitoring.user_id = "ops@example.com"
    /\ Len(trace) = 5
    /\ trace[3] = WaitForCompletion("domain_name_toolkit.check_ssl_expiry")
    /\ trace[4] = Authorize("Gmail.SendEmail", "ops@example.com", "completed")
    /\ trace[5].authorize = "Slack.SendMessage"

\* the step of run() an effect belongs to
StepOf(e) ==
    IF IsAuthorize(e) \/ IsWait(e) THEN 1
    ELSE IF IsWrite(e) THEN 3
    ELSE IF e.tool_name \in CheckTools THEN 2
    ELSE IF e.tool_name = "Gmail.SendEmail" THEN 4
    ELSE 5

Writes == SelectSeq(trace, IsWrite)
Executions == SelectSeq(trace, IsExecute)
Executed(tool_name) ==
    SelectSeq(trace, LAMBDA e : IsExecute(e) /\ e.tool_name = tool_name)

AfterSave == phase \in {"email", "slack", "done", "failed"}

(* C18: in every execution of run the effects occur in the order            *)
(* authorizations, checks of all domains, (alert evaluation,) saving the    *)
(* results, emails, Slack message; the results are saved at most once and   *)
(* exactly when save_results is enabled, also when there are no alerts;     *)
(* emails and the Slack message are attempted only if the alert list is     *)
(* non-empty and the channel is enabled; a run without alerts executes only *)
(* the check tools, at most two per domain.                                 *)
C18_RunOrder ==
    /\ \A p \in 1..(Len(trace) - 1) : StepOf(trace[p]) <= StepOf(trace[p + 1])
    /\ phase \in {"authorize", "check"} => alert_list = <<>> /\ Writes = <<>>
    /\ phase = "save" =>
          /\ returned = [op |-> "get_alerts", value |-> alert_list]
          /\ Len(Executed("domain_name_toolkit.check_domain_expiry"))
                 = Len(domains)
          /\ \A p \in 1..Len(trace) : StepOf(trace[p]) <= 2
    /\ AfterSave =>
          /\ Len(Writes) = IF config.monitoring.save_results THEN 1 ELSE 0
          /\ \A w \in 1..Len(Writes) : Writes[w].content.results = results
    /\ Executed("Gmail.SendEmail") # <<>> => alert_list # <<>> /\ EmailOn
    /\ Executed("Slack.SendMessage") # <<>> => alert_list # <<>> /\ SlackOn
    /\ (phase = "done" /\ alert_list # <<>> /\ EmailOn) =>
          Len(Executed("Gmail.SendEmail")) = Len(Recipients)
    /\ (phase = "done" /\ alert_list # <<>> /\ SlackOn) =>
          Len(Executed("Slack.SendMessage")) = 1
    /\ (phase = "done" /\ alert_list = <<>>) =>
          /\ \A p \in 1..Len(Executions) :
                 Executions[p].tool_name \in CheckTools
          /\ Len(Executions) <= 2 * Len(domains)

\* two healthy domains, saving enabled: four checks, then the one write,
\* no notification although both channels are enabled
C18_Witness ==
    /\ phase = "done"
    /\ Len(domains) = 2
    /\ alert_list = <<>>
    /\ EmailOn
    /\ SlackOn
    /\ \A i \in 1..Len(results) :
          /\ ~HasError(results[i])
          /\ results[i].domain_check.status = "success"
          /\ results[i].ssl_check.status = "success"
    /\ Len(Executions) = 4
    /\ Len(Writes) = 1
    /\ IsWrite(trace[Len(trace)])

\* one alert, both channels enabled: the write, two emails, one message
C18_WitnessNotified ==
    /\ phase = "done"
    /\ Len(alert_list) = 1
    /\ Len(Writes) = 1
    /\ Len(Executed("Gmail.SendEmail")) = 2
    /\ IsExecute(trace[Len(trace)])
    /\ trace[Len(trace)].tool_name = "Slack.SendMessage"

----------------------------------------------------------------------------
(* Properties of the configuration loader (specification ConfigSpec) *)

Loaded == returned.op = "load_config"

\* the candidates as the claim lists them
Candidates(config_file) ==
    IF config_file = None THEN DEFAULT_CONFIG_FILES ELSE <<config_file[1]>>

\* the file exists and parses without raising
Loadable(name) ==
    /\ files[name].kind # "absent"
    /\ ~IsRaised(load_yaml_config(files[name]))

(* C19: load_config(config_file) returns the configuration parsed from the  *)
(* first candidate file that exists and parses without raising; the         *)
(* candidates are config_file alone when one is given, else the three       *)
(* default names in their listed order; when no candidate loads, the        *)
(* configuration of the Python module is returned, and when importing it    *)
(* raises ImportError the built-in default (three domains, the first        *)
(* google.com).                                                             *)
C19_FirstLoadableCandidate ==
    Loaded =>
        LET candidates == Candidates(returned.config_file)
            loadable == {k \in 1..Len(candidates) : Loadable(candidates[k])}
        IN IF loadable # {}
           THEN LET first == CHOOSE k \in loadable : \A m \in loadable : k <= m
                IN returned.value =
                       load_yaml_config(files[candidates[first]]).returns
           ELSE IF files[PythonModule] = Module
           THEN returned.value = load_python_config(files).returns
           ELSE /\ Len(returned.value.domains) = 3
                /\ returned.value.domains[1].name = "google.com"

\* no file given; the first default name is unparsable, the second has a
\* nameless domain, the third loads; the custom file is not looked at
C19_Witness ==
    /\ Loaded
    /\ returned.config_file = None
    /\ files[DEFAULT_CONFIG_FILES[1]] = Invalid
    /\ files[DEFAULT_CONFIG_FILES[2]] = NamelessDocument
    /\ files[DEFAULT_CONFIG_FILES[3]] = NamedDocument(DEFAULT_CONFIG_FILES[3])
    /\ files[CustomFile] = NamedDocument(CustomFile)
    /\ Len(returned.value.domains) = 1
    /\ returned.value.domains[1].name = "domain_config.yaml"
    /\ returned.value.monitoring.alert_threshold_days = 30

\* save_config has written the configuration to this file
SavedTo(name) ==
    \E p \in 1..Len(trace) : IsWrite(trace[p]) /\ trace[p].write = name

(* C20: loading the file written by save_config(c) yields a configuration   *)
(* equal to c in its domains (name, description and alert_threshold_days    *)
(* of each, whatever the override, null included), in its monitoring        *)
(* fields and in its email recipients.                                      *)
C20_SaveLoadRoundTrip ==
    (Loaded /\ returned.config_file # None /\ SavedTo(returned.config_file[1])) =>
        /\ returned.value.domains = config.domains
        /\ returned.value.monitoring = config.monitoring
        /\ returned.value.notifications.email.recipients
               = config.notifications.email.recipients

\* _load_yaml_config has been called on its own
LoadedYaml == returned.op = "_load_yaml_config"

\* the value written in the document under the keys of path, or the default
\* when a key of the path is left out or has nothing under it
RECURSIVE Written(_, _, _)
Written(d, path, default) ==
    IF path = <<>> THEN d
    ELSE IF d = Null \/ Head(path) \notin DOMAIN d THEN default
    ELSE Written(d[Head(path)], Tail(path), default)

\* the document of a file, {} for the document without any section
Sections(file) == IF file.data = None THEN EmptyDict ELSE file.data[1]

\* every domain entry of the document has its name
EntriesNamed(file) ==
    LET entries == Written(Sections(file), <<"domains">>, <<>>)
    IN \A k \in 1..Len(entries) : "name" \in DOMAIN entries[k]

(* C21: loading a YAML configuration in which any subset of the sections    *)
(* monitoring, domains, notifications.email, notifications.slack and        *)
(* advanced, or of the keys inside them, is missing succeeds, and every     *)
(* missing value gets its default: alert threshold 30, email enabled,       *)
(* Slack disabled, WHOIS timeout 30, SSL timeout 10, 3 retry attempts,      *)
(* retry delay 5; a domain entry without alert_threshold_days gets a null   *)
(* override.                                                                *)
C21_MissingSectionsGetDefaults ==
    LET file == files[returned.config_file[1]]
    IN (LoadedYaml /\ file.kind = "yaml" /\ EntriesNamed(file)) =>
        /\ ~IsRaised(returned.outcome)
        /\ LET c == returned.outcome.returns
               d == Sections(file)
               entries == Written(d, <<"domains">>, <<>>)
           IN /\ c.monitoring.alert_threshold_days
                    = Written(d, <<"monitoring", "alert_threshold_days">>, 30)
              /\ c.notifications.email.enabled
                    = Written(d, <<"notifications", "email", "enabled">>, TRUE)
              /\ c.notifications.slack.enabled
                    = Written(d, <<"notifications", "slack", "enabled">>, FALSE)
              /\ c.advanced.whois_timeout_seconds
                    = Written(d, <<"advanced", "timeouts",
                                   "whois_timeout_seconds">>, 30)
              /\ c.advanced.ssl_timeout_seconds
                    = Written(d, <<"advanced", "timeouts",
                                   "ssl_timeout_seconds">>, 10)
              /\ c.advanced.max_retry_attempts
                    = Written(d, <<"advanced", "retry", "max_attempts">>, 3)
              /\ c.advanced.retry_delay_seconds
                    = Written(d, <<"advanced", "retry",
                                   "retry_delay_seconds">>, 5)
              /\ Len(c.domains) = Len(entries)
              /\ \A k \in 1..Len(entries) :
                    /\ c.domains[k].name = entries[k].name
                    /\ c.domains[k].alert_threshold_days
                          = GetOpt(entries[k], "alert_threshold_days")

\* the formula of C21 for the documents that are mappings all through
C21_MappingsOnly ==
    LET file == files[returned.config_file[1]]
    IN (LoadedYaml /\ file \in PartialDocuments) => C21_MissingSectionsGetDefaults

----------------------------------------------------------------------------
(* Properties of save_results (specification SaveSpec) *)

\* the keys of the object written
ResultFileKeys == {"checked_at", "config_summary", "results"}

(* C22: save_results writes nothing when monitoring.save_results is         *)
(* disabled; when enabled it writes one JSON object with the keys           *)
(* checked_at, config_summary and results, where results is the current     *)
(* result list in order and config_summary.domains_monitored is the number  *)
(* of monitored domains; the in-memory results are left unchanged.          *)
C22_SaveResultsWrites ==
    [][returned'.op = "save_results" =>
          /\ results' = results
          /\ IF ~config.monitoring.save_results
             THEN trace' = trace
             ELSE /\ Len(trace') = Len(trace) + 1
                  /\ SubSeq(trace', 1, Len(trace)) = trace
                  /\ LET written == trace'[Len(trace')]
                     IN /\ IsWrite(written)
                        /\ DOMAIN written.content = ResultFileKeys
                        /\ written.content.results = results
                        /\ written.content.config_summary.domains_monitored
                               = Len(domains)]_vars

\* the results of one domain have been written to the configured file
C22_Witness ==
    /\ returned.op = "save_results"
    /\ config.monitoring.save_results
    /\ Len(results) = 1
    /\ Len(trace) = 1
    /\ trace[1].write = config.monitoring.results_filename
    /\ trace[1].content.results = results
    /\ trace[1].content.config_summary.domains_monitored = 1

\* nothing is written when saving is disabled
C22_WitnessDisabled ==
    /\ returned.op = "save_results"
    /\ ~config.monitoring.save_results
    /\ results # <<>>
    /\ trace = <<>>

----------------------------------------------------------------------------
(* Properties of check_domain (specification CheckSpec) *)

DomainTool == "domain_name_toolkit.check_domain_expiry"
SslTool == "domain_name_toolkit.check_ssl_expiry"

\* the log is, domain after domain from the i-th on, one execution of the
\* domain tool, followed by one of the SSL tool when the first did not raise
RECURSIVE OncePerDomain(_, _)
OncePerDomain(log, i) ==
    IF log = <<>>
    THEN TRUE
    ELSE /\ i <= Len(domains)
         /\ log[1].tool_name = DomainTool
         /\ log[1].domain = domains[i]
         /\ IF log[1].raised
            THEN OncePerDomain(Tail(log), i + 1)
            ELSE \/ Len(log) = 1
                 \/ /\ log[2].tool_name = SslTool
                    /\ log[2].domain = domains[i]
                    /\ OncePerDomain(SubSeq(log, 3, Len(log)), i + 1)

ErrorEntryKeys == {"domain", "error", "checked_at"}
CheckEntryKeys == {"domain", "domain_check", "ssl_check", "checked_at"}

(* C23: check_domain executes, per domain, the check_domain_expiry tool and *)
(* then the check_ssl_expiry tool, each at most once and never retried,     *)
(* whatever advanced.max_retry_attempts is; when the first execution raises *)
(* the second is not executed and the domain's entry is an error entry      *)
(* without domain_check or ssl_check; when neither raises the record holds  *)
(* both tool outputs unmodified together with domain and checked_at.        *)
C23_EachToolOncePerDomain ==
    [][/\ OncePerDomain(calls', 1)
       /\ LET out == BatchOutcomes(calls')
          IN /\ Len(out) = Len(results')
             /\ \A i \in 1..Len(out) :
                   /\ results'[i].domain = domains[i]
                   /\ DOMAIN results'[i] =
                         IF out[i].raised THEN ErrorEntryKeys ELSE CheckEntryKeys
       /\ (pc = "check_domain_expiry" /\ pc' = "check_ssl_expiry") =>
             domain_result' \in DomainOutputs
       /\ (pc = "check_ssl_expiry" /\ ~calls'[Len(calls')].raised) =>
             /\ results'[Len(results')].domain_check = domain_result
             /\ results'[Len(results')].ssl_check \in SslOutputs]_vars

\* three retries configured: the first domain's first execution raised and
\* was the only one for it, the second domain had both executions
C23_Witness ==
    /\ returned.op = "check_all_domains"
    /\ config.advanced.max_retry_attempts = 3
    /\ Len(domains) = 2
    /\ Len(calls) = 3
    /\ calls[1].raised
    /\ calls[2].tool_name = DomainTool /\ ~calls[2].raised
    /\ calls[3].tool_name = SslTool /\ ~calls[3].raised
    /\ DOMAIN results[1] = ErrorEntryKeys
    /\ DOMAIN results[2] = CheckEntryKeys

----------------------------------------------------------------------------
(* Properties of the registrar, from the checker to the email               *)
(* (specification ToolSpec)                                                 *)

\* the text of an isoformat() value
IsoText(iso) ==
    ToString(iso.iso_date) \o "T" \o ToString(iso.iso_time)
    \o (IF iso.iso_offset = None THEN "" ELSE "+" \o ToString(iso.iso_offset[1]))

\* a success result of check_domain_expiry as the monitor receives it in
\* domain_result.output.value: a null registrar reads as None with .get
OutputValue(result) ==
    LET fields == [status |-> result.status,
                   days_until_expiry |-> result.days_until_expiry,
                   expiration_date |-> IsoText(result.expiration_date)]
    IN IF result.registrar = None
       THEN fields
       ELSE [k \in DOMAIN fields \cup {"registrar"} |->
                IF k = "registrar" THEN result.registrar[1] ELSE fields[k]]

\* the line of the email body that shows the registrar
RegistrarLine(alert) ==
    LET lines == email_alert_lines(alert)
    IN lines[Len(lines) - 1]

(* C24: in a success result of check_domain_expiry the registrar field is   *)
(* the registrar reported by WHOIS when one is present, and the string      *)
(* 'Unknown' whenever the registrar is absent from the WHOIS response       *)
(* (attribute missing, or present with a null value); the                   *)
(* domain_registration alert and the email body derived from it show that   *)
(* same value.                                                              *)
C24_RegistrarOrUnknown ==
    (Succeeded /\ tool_call.tool = "check_domain_expiry") =>
        LET reported == world[1].whois
            registrar == IF "registrar" \in DOMAIN reported
                            /\ reported.registrar # None
                         THEN reported.registrar[1]
                         ELSE "Unknown"
            alert == domain_alert(FirstName, OutputValue(Result),
                                  Result.days_until_expiry)
        IN /\ Result.registrar = Some(registrar)
           /\ alert.registrar = Some(registrar)
           /\ RegistrarLine(alert) = "   Registrar: " \o registrar

\* the formula of C24 for the responses whose registrar is not null
C24_ReportedOrMissing ==
    (Called /\ world[1].whois.kind = "record"
            /\ ("registrar" \in DOMAIN world[1].whois
                   => world[1].whois.registrar # None))
        => C24_RegistrarOrUnknown

----------------------------------------------------------------------------
(* Properties of the domain cleaning (specifications CleanSpec, ToolSpec) *)

\* the cleaned name the checker used: the name of the WHOIS query, the host
\* of the TCP connection
Cleaned ==
    IF tool_call.tool = "check_domain_expiry"
    THEN tool_call.whois_query[1]
    ELSE tool_call.connect[1].host

Occurs(sub, s) ==
    \E i \in 1..(Len(s) - Len(sub) + 1) : SubSeq(s, i, i + Len(sub) - 1) = sub

(* C25: the domain cleaning used by both checkers is idempotent: for every  *)
(* input string s, cleaning the cleaned form of s gives the cleaned form of *)
(* s again, and the cleaned form contains no '/' and no occurrence of       *)
(* 'http://', 'https://' or 'www.'.                                         *)
C25_CleaningIdempotent ==
    Called =>
        /\ clean_domain(Cleaned) = Cleaned
        /\ ~Occurs(<<SLASH>>, Cleaned)
        /\ ~Occurs(HTTP, Cleaned)
        /\ ~Occurs(HTTPS, Cleaned)
        /\ ~Occurs(WWW, Cleaned)

\* the part of C25 about the slash and the schemes
C25_NoSlashNoScheme ==
    Called =>
        /\ ~Occurs(<<SLASH>>, Cleaned)
        /\ ~Occurs(HTTP, Cleaned)
        /\ ~Occurs(HTTPS, Cleaned)

(* C26: in every result returned by check_domain_expiry and                 *)
(* check_ssl_expiry, on the success path and on every error path, the       *)
(* domain field is the cleaned form of the input (scheme, 'www.' and path   *)
(* removed), so that two inputs that clean to the same host yield the same  *)
(* domain field.                                                            *)
C26_DomainFieldIsCleaned ==
    (Called /\ ~IsRaised(tool_call.outcome)) =>
        Result.domain = clean_domain(request[1].domain)

\* the formula of C26 for the results that a return statement of the try
\* block built
C26_ReturnedInTry ==
    (Called /\ ~IsRaised(tool_call.outcome)
            /\ (\/ Result.status = "success"
                \/ Result.message \in {<<"Domain not found.">>,
                                       <<"Could not determine expiration date">>}))
        => C26_DomainFieldIsCleaned

----------------------------------------------------------------------------
(* Properties of the expiry flags at the second (specification ToolSpec) *)

(* C27: for instants at second granularity, is_expired is true exactly when *)
(* the expiration instant is strictly earlier than now; an expiration equal *)
(* to now or less than one day after now gives days_until_expiry 0,         *)
(* is_expired false and expires_soon true; expires_soon is true exactly     *)
(* when 0 <= expiration - now < 31 days; an expiration one second in the    *)
(* past gives days_until_expiry -1.                                         *)
C27_FlagsAtTheSecond ==
    Succeeded =>
        /\ Result.is_expired = (SecondsLeft < 0)
        /\ (0 <= SecondsLeft /\ SecondsLeft < SecondsPerDay) =>
              /\ Result.days_until_expiry = 0
              /\ ~Result.is_expired
              /\ Result.expires_soon
        /\ Result.expires_soon =
              (0 <= SecondsLeft /\ SecondsLeft < 31 * SecondsPerDay)
        /\ SecondsLeft = -1 => Result.days_until_expiry = -1

\* a certificate that expired one second before the check
C27_Witness ==
    /\ Succeeded
    /\ tool_call.tool = "check_ssl_expiry"
    /\ SecondsLeft = -1
    /\ Result.days_until_expiry = -1
    /\ Result.is_expired
    /\ ~Result.expires_soon

\* an expiration at the instant of the check, and one a second short of 31
\* days after it
C27_WitnessNow ==
    /\ Succeeded
    /\ SecondsLeft = 0
    /\ Result.days_until_expiry = 0
    /\ Result.expires_soon

C27_WitnessLastSecond ==
    /\ Succeeded
    /\ SecondsLeft = 31 * SecondsPerDay - 1
    /\ Result.days_until_expiry = 30
    /\ Result.expires_soon

----------------------------------------------------------------------------
(* Properties of the result list over several batches (specification Spec) *)

\* the alert is about a sub-check of one of these results
FromResults(alert, res) ==
    \E i \in 1..Len(res) :
        /\ ~HasError(res[i])
        /\ res[i].domain = alert.domain
        /\ GetOpt(SubCheck(res[i], alert.type), "days_until_expiry")
               = alert.days_until_expiry

(* C28: after any sequence of check_all_domains calls, with any outcomes,   *)
(* the result list holds exactly as many entries as there are monitored     *)
(* domains, entry i being the one for domain i of the latest call: each     *)
(* call discards the results of earlier calls instead of accumulating       *)
(* them, and get_alerts only reflects the latest batch.                     *)
C28_LatestBatchOnly ==
    [][/\ (pc = "idle" /\ (pc' # "idle" \/ returned'.op = "check_all_domains")) =>
             /\ calls' = <<>>
             /\ results' = <<>>
       /\ returned'.op = "check_all_domains" =>
             LET out == BatchOutcomes(calls')
             IN /\ Len(results') = Len(domains)
                /\ Len(out) = Len(domains)
                /\ \A i \in 1..Len(domains) :
                      /\ results'[i].domain = domains[i]
                      /\ HasError(results'[i]) = out[i].raised
       /\ returned'.op = "get_alerts" =>
             /\ results' = results
             /\ \A k \in 1..Len(returned'.value) :
                   FromResults(returned'.value[k], results)]_vars

\* a batch of two domains has returned: four executions in its log, two
\* entries in the list
C28_Witness ==
    /\ returned.op = "check_all_domains"
    /\ Len(domains) = 2
    /\ Len(calls) = 4
    /\ Len(results) = 2
    /\ ~HasError(results[1])
    /\ ~HasError(results[2])

----------------------------------------------------------------------------
(* Properties of get_alerts: repeated names, frame (specification Spec) *)

\* the entries of a domain list that are the first of their name
RECURSIVE FirstOfEachName(_, _)
FirstOfEachName(entries, seen) ==
    IF entries = <<>>
    THEN <<>>
    ELSE IF Head(entries).name \in seen
    THEN FirstOfEachName(Tail(entries), seen)
    ELSE <<Head(entries)>>
             \o FirstOfEachName(Tail(entries), seen \cup {Head(entries).name})

\* the configuration without the later entries of a repeated name
WithoutRepeats(cfg) ==
    [cfg EXCEPT !.domains = FirstOfEachName(cfg.domains, {})]

\* the first configured entry of the name
FirstEntry(domain_name) ==
    config.domains[CHOOSE k \in 1..Len(config.domains) :
                      /\ config.domains[k].name = domain_name
                      /\ \A j \in 1..(k - 1) : config.domains[j].name # domain_name]

(* C29: when the configured domain list contains several entries with the   *)
(* same name, get_alerts resolves the threshold for a result of that name   *)
(* from the first such entry only: the alerts are those of the list without *)
(* the later entries, and if the first entry has no override the global     *)
(* threshold is used even when a later entry of the name carries one.       *)
C29_FirstEntryOfANameDecides ==
    AlertsReturned =>
        /\ returned.value = get_alerts(results, WithoutRepeats(config))
        /\ \A k \in 1..Len(returned.value) :
              LET alert == returned.value[k]
              IN FirstEntry(alert.domain).alert_threshold_days = None
                    => alert.threshold = config.monitoring.alert_threshold_days
        /\ \A i \in 1..Len(results) :
              (/\ ~HasError(results[i])
               /\ FirstEntry(results[i].domain).alert_threshold_days = None
               /\ "days_until_expiry" \in DOMAIN results[i].domain_check
               /\ results[i].domain_check.days_until_expiry
                      > config.monitoring.alert_threshold_days)
                 => \A k \in 1..Len(returned.value) :
                       ~(/\ returned.value[k].domain = results[i].domain
                         /\ returned.value[k].type = "domain_registration"
                         /\ returned.value[k].days_until_expiry
                                = Some(results[i].domain_check.days_until_expiry))

\* a.com is configured twice, without override and then with 60; 45 days
\* are left everywhere and the global threshold is 30: no alert
C29_Witness ==
    /\ AlertsReturned
    /\ Len(config.domains) = 2
    /\ config.domains[1] = [name |-> FirstName, alert_threshold_days |-> None]
    /\ config.domains[2] = [name |-> FirstName, alert_threshold_days |-> Some(60)]
    /\ config.monitoring.alert_threshold_days = 30
    /\ Len(results) = 2
    /\ \A i \in 1..2 :
          /\ ~HasError(results[i])
          /\ GetOpt(results[i].domain_check, "days_until_expiry") = Some(45)
          /\ GetOpt(results[i].ssl_check, "days_until_expiry") = Some(45)
    /\ returned.value = <<>>

\* the results without a top-level error
Checked(res) == {i \in 1..Len(res) : ~HasError(res[i])}

\* the alerts of one type about one domain name
AlertsAbout(alerts, domain_name, type) ==
    {k \in 1..Len(alerts) : /\ alerts[k].domain = domain_name
                            /\ alerts[k].type = type}

(* C30: get_alerts leaves the result list and the configuration unchanged   *)
(* and executes no tool, so a further call in the state it leaves returns   *)
(* the same alert list; the number of alerts is at most twice the number of *)
(* results without a top-level error, and for every domain name and alert   *)
(* type there are no more alerts than such results of that name.            *)
C30_GetAlertsOnlyReads ==
    [][returned'.op = "get_alerts" =>
          /\ results' = results
          /\ config' = config
          /\ domains' = domains
          /\ calls' = <<>>
          /\ UNCHANGED <<pc, domain_result, toolVars, shellVars>>
          /\ get_alerts(results', config') = returned'.value
          /\ Len(returned'.value) <= 2 * Cardinality(Checked(results))
          /\ \A k \in 1..Len(returned'.value) :
                returned'.value[k].type \in AlertTypes
          /\ \A i \in 1..Len(results) : \A type \in AlertTypes :
                Cardinality(AlertsAbout(returned'.value, results[i].domain, type))
                    <= Cardinality({j \in Checked(results) :
                                        results[j].domain = results[i].domain})]_vars

\* get_alerts has returned two alerts for every result without a top-level
\* error, next to a result with one, after a batch that executed tools
C30_Witness ==
    /\ AlertsReturned
    /\ calls = <<>>
    /\ \E i \in 1..Len(results) : HasError(results[i])
    /\ Checked(results) # {}
    /\ Len(returned.value) = 2 * Cardinality(Checked(results))

====
